---- MODULE Spec2Model ----
(***************************************************************************)
(* WorldHost: entity/component store, contract registry, spatial module,   *)
(* chunk manager, movement system, world state and the WebSocket session   *)
(* layer, modelled as state machines.                                      *)
(*                                                                         *)
(* Numbers.  Lengths are fixed-point integers in thousandths of a world    *)
(* unit (1 world unit = Unit = 1000), times are in milliseconds and speeds *)
(* in world units per second, so speed * time is again in thousandths.     *)
(* COLLISION_EPSILON = 0.001 is 1, as a length and as a factor in           *)
(* thousandths.                                                            *)
(***************************************************************************)
EXTENDS Integers, Sequences, FiniteSets, TLC

\* COLLISION_EPSILON = 0.001 world units is the smallest length of the model
COLLISION_EPSILON == 1
Unit == 1000 * COLLISION_EPSILON

(***************************************************************************)
(* Generic helpers                                                         *)
(***************************************************************************)
Abs(n) == IF n < 0 THEN -n ELSE n
Min2(a, b) == IF a < b THEN a ELSE b
Max2(a, b) == IF a > b THEN a ELSE b
\* Math.floor(a / b) for b > 0
FloorDiv(a, b) == a \div b
\* Math.ceil(a / b) for b > 0
CeilDiv(a, b) == -((-a) \div b)
\* a / b rounded toward zero, b > 0 (the fixed-point image of a product a * (1/b))
TruncDiv(a, b) == IF a >= 0 THEN a \div b ELSE -((-a) \div b)
\* JavaScript's a % b for b > 0: the remainder takes the sign of the dividend
JsRem(a, b) == a - b * TruncDiv(a, b)

RECURSIVE ISqrtBits(_, _, _)
ISqrtBits(n, r, b) ==
    IF b = 0 THEN r
    ELSE IF r + b <= n \div (r + b) THEN ISqrtBits(n, r + b, b \div 2)
         ELSE ISqrtBits(n, r, b \div 2)
\* Math.sqrt on fixed-point squares: the integer square root (floor)
ISqrt(n) == ISqrtBits(n, 0, 32768)

\* Array.prototype.filter on a sequence of records, by their type field
OfType(seq, t) == SelectSeq(seq, LAMBDA c : c.type = t)
\* Set.prototype.add on an insertion-ordered set kept as a duplicate-free sequence
OrdAdd(seq, x) == IF \E i \in 1..Len(seq) : seq[i] = x THEN seq ELSE Append(seq, x)
\* Set.prototype.delete on an insertion-ordered set
OrdDel(seq, x) == SelectSeq(seq, LAMBDA y : y # x)
Range(seq) == {seq[i] : i \in 1..Len(seq)}
\* Map.prototype.set / delete on a map kept as a function with a dynamic domain
MapSet(m, k, v) == [x \in DOMAIN m \cup {k} |-> IF x = k THEN v ELSE m[x]]
MapDel(m, k) == [x \in DOMAIN m \ {k} |-> m[x]]
EmptyMap == [x \in {} |-> 0]
\* const v = ...; F(v): a value computed once and used by what follows
Bind(v, F(_)) == F(v)

(***************************************************************************)
(* Contract registry: schemas and cardinality limits                       *)
(***************************************************************************)
CONTRACT_TYPES ==
    {"identity", "mobility", "shape", "visual", "solidity", "entrance", "portable",
     "inventory", "durability", "contract_limit", "movement_rules",
     "world_conditions", "world_commands", "command_access"}

\* Absent optional number (maxSpeed, armor) is written 0 - 1 = NoNumber
NoNumber == 0 - 1

\* DurabilityObjectSchema: health nonnegative, maxHealth positive, armor nonnegative
DurabilityObjectSchema(c) ==
    /\ c.health >= 0
    /\ c.maxHealth > 0
    /\ (c.armor = NoNumber \/ c.armor >= 0)

\* DurabilitySchema: the refined schema (health <= maxHealth), registered per type
DurabilitySchema(c) == DurabilityObjectSchema(c) /\ c.health <= c.maxHealth

\* AnyContractSchema: the discriminated union that validate() parses with.
\* Its durability member is the base object schema, not the refined one.
AnyContractSchema(c) ==
    /\ c.type \in CONTRACT_TYPES
    /\ c.type = "mobility" => (c.maxSpeed = NoNumber \/ c.maxSpeed > 0)
    /\ c.type = "portable" => c.weight >= 0
    /\ c.type = "durability" => DurabilityObjectSchema(c)
    /\ c.type = "contract_limit" => \A i \in 1..Len(c.limits) : c.limits[i].max > 0
    /\ c.type = "movement_rules" => c.stepDistance > 0

\* ContractRegistry.validate
validate(c) == AnyContractSchema(c)

\* initializeDefaultLimits: every registered type has a global limit
DefaultLimits ==
    [t \in CONTRACT_TYPES |-> IF t = "portable" THEN 3 ELSE 1]

\* Array.prototype.find on the limits of an optional contract_limit (<<>> = undefined)
FindLimit(limitContract, t) ==
    IF limitContract = <<>> THEN <<>>
    ELSE LET ls == OfType([i \in 1..Len(limitContract[1].limits) |->
                             [type |-> limitContract[1].limits[i].contractType,
                              max |-> limitContract[1].limits[i].max]], t)
         IN IF ls = <<>> THEN <<>> ELSE <<ls[1].max>>

\* ContractRegistry.checkLimits: TRUE when the add is allowed
checkLimits(gl, t, existingContracts, limitContract) ==
    LET entityLimit == FindLimit(limitContract, t)
        currentCount == Len(OfType(existingContracts, t))
    IN IF entityLimit # <<>> THEN ~(currentCount >= entityLimit[1])
       ELSE IF t \in DOMAIN gl THEN ~(currentCount >= gl[t])
       ELSE TRUE

(***************************************************************************)
(* ECSWorld.  A store is [entities, contractIndex]: entities maps an id to *)
(* its Set<Contract> in insertion order, contractIndex maps a type to its  *)
(* Set<EntityId> in insertion order (a key exists only while non-empty).   *)
(* Every operation returns [st, log, err]: the store afterwards, the       *)
(* lifecycle events in the order their hooks are called, and the error     *)
(* thrown ("none" when it returns normally).                               *)
(***************************************************************************)
EmptyStore == [entities |-> EmptyMap, contractIndex |-> EmptyMap]

hasEntity(st, id) == id \in DOMAIN st.entities

\* getContracts
getContracts(st, id) == IF hasEntity(st, id) THEN st.entities[id] ELSE <<>>

\* getContract: the first contract of the type in insertion order, <<c>> or <<>>
getContract(st, id, t) ==
    LET cs == OfType(getContracts(st, id), t)
    IN IF cs = <<>> THEN <<>> ELSE <<cs[1]>>

hasContract(st, id, t) == getContract(st, id, t) # <<>>

\* getEntitiesWithContract
getEntitiesWithContract(st, t) ==
    IF t \in DOMAIN st.contractIndex THEN st.contractIndex[t] ELSE <<>>

\* "Default: unlimited" (Number.MAX_SAFE_INTEGER in the code; the largest integer
\* of the model checker here)
Unlimited == 2147483647

\* getMaxContractsAllowed
getMaxContractsAllowed(gl, t, limitContract) ==
    LET entityLimit == FindLimit(limitContract, t)
    IN IF entityLimit # <<>> THEN entityLimit[1]
       ELSE IF t \in DOMAIN gl THEN gl[t]
       ELSE Unlimited

FirstOfTypeMutant(seq, t) ==
    IF \E i \in 1..Len(seq) : seq[i].type = t
    THEN CHOOSE i \in 1..Len(seq) :
            seq[i].type = t /\ \A j \in (i + 1)..Len(seq) : seq[j].type # t
    ELSE 0

\* Position of the first contract of type t in a sequence (0 when none)
FirstOfType(seq, t) ==
    IF \E i \in 1..Len(seq) : seq[i].type = t
    THEN CHOOSE i \in 1..Len(seq) : seq[i].type = t /\ \A j \in 1..(i - 1) : seq[j].type # t
    ELSE 0

RemoveAt(seq, i) == SubSeq(seq, 1, i - 1) \o SubSeq(seq, i + 1, Len(seq))

\* The index update of removeContractInternal: the entity id is deleted from the
\* type's set whenever one contract of that type is removed
IndexAfterRemove(idx, id, t) ==
    IF t \in DOMAIN idx
    THEN LET s == OrdDel(idx[t], id)
         IN IF s = <<>> THEN MapDel(idx, t) ELSE MapSet(idx, t, s)
    ELSE idx

\* removeContractInternal applied to the i-th contract of the entity
removeContractInternal(st, id, i) ==
    LET c == st.entities[id][i]
    IN [st |-> [entities |-> MapSet(st.entities, id, RemoveAt(st.entities[id], i)),
                contractIndex |-> IndexAfterRemove(st.contractIndex, id, c.type)],
        log |-> <<[ev |-> "contractRemove", id |-> id, type |-> c.type, contract |-> c,
                   present |-> TRUE]>>,
        err |-> "none"]

\* removeContract
removeContract(st, id, t) ==
    IF getContract(st, id, t) = <<>>
    THEN [st |-> st, log |-> <<>>, err |-> "notfound"]
    ELSE removeContractInternal(st, id, FirstOfType(st.entities[id], t))

\* The while loop of addContract: remove the oldest contract of the type while
\* the number of those found before the loop, less the ones removed, is >= maxAllowed
RECURSIVE EvictOldest(_, _, _, _, _)
EvictOldest(r, id, t, remaining, maxAllowed) ==
    IF remaining >= maxAllowed /\ remaining > 0
    THEN Bind(removeContractInternal(r.st, id, FirstOfType(r.st.entities[id], t)),
              LAMBDA n :
                EvictOldest([st |-> n.st, log |-> r.log \o n.log, err |-> "none"],
                            id, t, remaining - 1, maxAllowed))
    ELSE IF remaining >= maxAllowed
         \* the list is empty and 0 >= maxAllowed: shift() yields undefined forever
         THEN [st |-> r.st, log |-> r.log, err |-> "diverges"]
         ELSE r

\* The rest of addContract once the loop has run: checkLimits, then the add
AddAfterEviction(ev, gl, id, contract, limitContract) ==
    IF ev.err # "none" THEN ev
    ELSE IF ~checkLimits(gl, contract.type, ev.st.entities[id], limitContract)
    THEN [st |-> ev.st, log |-> ev.log, err |-> "limit"]
    ELSE [st |-> [entities |-> MapSet(ev.st.entities, id,
                                      Append(ev.st.entities[id], contract)),
                  contractIndex |->
                      MapSet(ev.st.contractIndex, contract.type,
                             OrdAdd(getEntitiesWithContract(ev.st, contract.type), id))],
          log |-> Append(ev.log, [ev |-> "contractAdd", id |-> id,
                                  type |-> contract.type, contract |-> contract,
                                  present |-> TRUE]),
          err |-> "none"]

addContractMutant(st, gl, id, contract) ==
    IF ~hasEntity(st, id) THEN [st |-> st, log |-> <<>>, err |-> "unknown"]
    ELSE Bind(getContract(st, id, "contract_limit"), LAMBDA limitContract :
           AddAfterEviction(
               EvictOldest([st |-> st, log |-> <<>>, err |-> "none"], id, contract.type,
                           Len(OfType(st.entities[id], contract.type)),
                           getMaxContractsAllowed(gl, contract.type, limitContract)),
               gl, id, contract, limitContract))

\* addContract
addContract(st, gl, id, contract) ==
    IF ~hasEntity(st, id) THEN [st |-> st, log |-> <<>>, err |-> "unknown"]
    ELSE IF ~validate(contract) THEN [st |-> st, log |-> <<>>, err |-> "invalid"]
    ELSE Bind(getContract(st, id, "contract_limit"), LAMBDA limitContract :
           AddAfterEviction(
               EvictOldest([st |-> st, log |-> <<>>, err |-> "none"], id, contract.type,
                           Len(OfType(st.entities[id], contract.type)),
                           getMaxContractsAllowed(gl, contract.type, limitContract)),
               gl, id, contract, limitContract))

\* The for loop of createEntity: add the initial contracts until one throws
RECURSIVE AddAll(_, _, _, _)
AddAll(r, gl, id, contracts) ==
    IF contracts = <<>> \/ r.err # "none" THEN r
    ELSE Bind(addContract(r.st, gl, id, Head(contracts)), LAMBDA n :
           AddAll([st |-> n.st, log |-> r.log \o n.log, err |-> n.err],
                  gl, id, Tail(contracts)))

\* createEntity
createEntity(st, gl, id, contracts) ==
    IF hasEntity(st, id) THEN [st |-> st, log |-> <<>>, err |-> "exists"]
    ELSE Bind(AddAll([st |-> [entities |-> MapSet(st.entities, id, <<>>),
                              contractIndex |-> st.contractIndex],
                      log |-> <<>>, err |-> "none"], gl, id, contracts),
              LAMBDA r :
                IF r.err # "none" THEN r
                ELSE [st |-> r.st,
                      log |-> Append(r.log, [ev |-> "entityAdd", id |-> id, type |-> "",
                                             contract |-> <<>>, present |-> TRUE]),
                      err |-> "none"])

\* The for loop of removeEntity: every contract, in insertion order
RECURSIVE RemoveAll(_, _)
RemoveAll(r, id) ==
    IF r.st.entities[id] = <<>> THEN r
    ELSE Bind(removeContractInternal(r.st, id, 1), LAMBDA n :
           RemoveAll([st |-> n.st, log |-> r.log \o n.log, err |-> "none"], id))

removeEntityMutant(st, id) ==
    IF ~hasEntity(st, id) THEN [st |-> st, log |-> <<>>, err |-> "notfound"]
    ELSE [st |-> [entities |-> MapDel(st.entities, id),
                  contractIndex |-> st.contractIndex],
          log |-> <<[ev |-> "entityRemove", id |-> id, type |-> "",
                     contract |-> <<>>, present |-> FALSE]>>,
          err |-> "none"]

\* removeEntity
removeEntity(st, id) ==
    IF ~hasEntity(st, id) THEN [st |-> st, log |-> <<>>, err |-> "notfound"]
    ELSE Bind(RemoveAll([st |-> st, log |-> <<>>, err |-> "none"], id), LAMBDA r :
           [st |-> [entities |-> MapDel(r.st.entities, id),
                    contractIndex |-> r.st.contractIndex],
            log |-> Append(r.log, [ev |-> "entityRemove", id |-> id, type |-> "",
                                   contract |-> <<>>, present |-> FALSE]),
            err |-> "none"])

(***************************************************************************)
(* State                                                                   *)
(***************************************************************************)
VARIABLES
    entities,           \* ECSWorld.entities
    contractIndex,      \* ECSWorld.contractIndex
    entitiesByLayer,    \* WorldState.entitiesByLayer
    playerCounter,      \* WorldState.playerCounter
    chunks,             \* ChunkManager.chunks
    loadedChunks,       \* ChunkManager.loadedChunks
    clients,            \* the connections of the WebSocket server, by socket
    chunkSubscriptions, \* chunk key string -> ids of the subscribed clients
    sent,               \* the messages the last handler sent to its socket, in order
    broadcast,          \* the messages it sent to subscribers, as [to, message]
    lastCmd,            \* the connection event or message handled last
    lastOp,             \* the store operation called last, and its outcome
    hookLog,            \* lifecycle events of the last store operation, in hook order
    lastMove,           \* the movement call made last, its entity before it and its result
    moves               \* how many moveEntity calls have been made

storeVars == <<entities, contractIndex>>
moveVars == <<lastMove, moves>>
serverVars == <<entitiesByLayer, playerCounter, chunks, loadedChunks, clients,
                chunkSubscriptions, sent, broadcast, lastCmd>>
vars == <<entities, contractIndex, entitiesByLayer, playerCounter, chunks, loadedChunks,
          clients, chunkSubscriptions, sent, broadcast, lastCmd, lastOp, hookLog,
          lastMove, moves>>

Store == [entities |-> entities, contractIndex |-> contractIndex]

\* No movement call has been made
NoMove == [op |-> "none"]

(***************************************************************************)
(* Contract factories                                                      *)
(***************************************************************************)
createIdentity(id) == [type |-> "identity", id |-> id]
createMobility(position, maxSpeed) ==
    [type |-> "mobility", position |-> position, maxSpeed |-> maxSpeed]
createShape(min, max) == [type |-> "shape", bounds |-> [min |-> min, max |-> max]]
createSolidity(solid) == [type |-> "solidity", solid |-> solid]
createPortable(weight) == [type |-> "portable", weight |-> weight]
createDurability(maxHealth, health) ==
    [type |-> "durability", health |-> health, maxHealth |-> maxHealth, armor |-> NoNumber]
createContractLimit(limits) == [type |-> "contract_limit", limits |-> limits]
createWorldCommands(commands) == [type |-> "world_commands", commands |-> commands]
createCommandAccess(allowed) == [type |-> "command_access", allowed |-> allowed]

(***************************************************************************)
(* Vectors and chunk coordinates (shared/src/index.ts, world/space.ts)     *)
(***************************************************************************)
CHUNK_SIZE == 32
CHUNK_HEIGHT == 256

Vec3(x, y, z) == [x |-> x, y |-> y, z |-> z]
Vec3Utils_add(a, b) == Vec3(a.x + b.x, a.y + b.y, a.z + b.z)
Vec3Utils_subtract(a, b) == Vec3(a.x - b.x, a.y - b.y, a.z - b.z)
LengthSquared(v) == v.x * v.x + v.y * v.y + v.z * v.z
\* Vec3Utils.length; the fixed-point length is rounded up to the next thousandth
Vec3Utils_length(v) ==
    LET r == ISqrt(LengthSquared(v))
    IN IF r * r = LengthSquared(v) THEN r ELSE r + 1
\* Vec3Utils.multiply(v, num / den): components rounded toward zero
ScaleVec3(v, num, den) ==
    Vec3(TruncDiv(v.x * num, den), TruncDiv(v.y * num, den), TruncDiv(v.z * num, den))

ChunkUtils_create(layerId, cx, cy, cz) ==
    [layerId |-> layerId, cx |-> cx, cy |-> cy, cz |-> cz]
ChunkUtils_toString(key) ==
    key.layerId \o ":" \o ToString(key.cx) \o "," \o ToString(key.cy)
        \o "," \o ToString(key.cz)

\* The text of a string as the sequence of its characters, for toString and
\* fromString of ChunkUtils, whose regular expression reads character by character
DigitChars == <<"0", "1", "2", "3", "4", "5", "6", "7", "8", "9">>

\* String(n) of a non-negative integer below 1e21: its decimal digits
RECURSIVE NatChars(_)
NatChars(n) ==
    IF n < 10 THEN <<DigitChars[n + 1]>>
    ELSE NatChars(n \div 10) \o <<DigitChars[(n % 10) + 1]>>

\* `${n}` of an integer
IntChars(n) == IF n < 0 THEN <<"-">> \o NatChars(0 - n) ELSE NatChars(n)

\* ChunkUtils.toString on a key whose layerId is a sequence of characters
toStringChars(key) ==
    key.layerId \o <<":">> \o IntChars(key.cx) \o <<",">> \o IntChars(key.cy)
        \o <<",">> \o IntChars(key.cz)

\* The pattern -?\d+ on a whole part
MatchesInteger(part) ==
    /\ part # <<>>
    /\ IF part[1] = "-"
       THEN Len(part) >= 2 /\ \A i \in 2..Len(part) : part[i] \in Range(DigitChars)
       ELSE \A i \in 1..Len(part) : part[i] \in Range(DigitChars)

\* The value of a sequence of digits
RECURSIVE DigitsValue(_)
DigitsValue(digits) ==
    IF digits = <<>> THEN 0
    ELSE DigitsValue(SubSeq(digits, 1, Len(digits) - 1)) * 10
            + (CHOOSE d \in 0..9 : DigitChars[d + 1] = digits[Len(digits)])

\* parseInt(part, 10) on a part that matches -?\d+
parseInt(part) ==
    IF part[1] = "-" THEN 0 - DigitsValue(Tail(part)) ELSE DigitsValue(part)

\* The groups of /^([^:]+):(-?\d+),(-?\d+),(-?\d+)$/ in str, <<>> without a
\* match: the layer ends at the first colon, the rest has no colon and exactly
\* two commas, between which the three integers stand
MatchKey(str) ==
    LET colons == {i \in 1..Len(str) : str[i] = ":"}
        commas == {i \in 1..Len(str) : str[i] = ","}
    IN IF Cardinality(colons) # 1 THEN <<>>
       ELSE LET c == CHOOSE i \in colons : TRUE
                after == {i \in commas : i > c}
            IN IF c = 1 \/ Cardinality(after) # 2 THEN <<>>
               ELSE LET c1 == CHOOSE i \in after : \A j \in after : i <= j
                        c2 == CHOOSE i \in after : \A j \in after : i >= j
                        parts == << SubSeq(str, c + 1, c1 - 1), SubSeq(str, c1 + 1, c2 - 1),
                                    SubSeq(str, c2 + 1, Len(str)) >>
                    IN IF \A i \in 1..3 : MatchesInteger(parts[i])
                       THEN <<SubSeq(str, 1, c - 1)>> \o parts
                       ELSE <<>>

\* ChunkUtils.fromString: <<key>>, or <<>> for null
ChunkUtils_fromString(str) ==
    IF MatchKey(str) = <<>> THEN <<>>
    ELSE << [layerId |-> MatchKey(str)[1], cx |-> parseInt(MatchKey(str)[2]),
             cy |-> parseInt(MatchKey(str)[3]), cz |-> parseInt(MatchKey(str)[4])] >>

\* worldToChunk with chunkSize in world units
worldToChunk(position, chunkSize) ==
    [cx |-> FloorDiv(position.x, chunkSize * Unit),
     cy |-> FloorDiv(position.y, CHUNK_HEIGHT * Unit),
     cz |-> FloorDiv(position.z, chunkSize * Unit)]

\* keyFromPos: every layer of the model has the default chunk size
keyFromPos(layerId, position) ==
    LET c == worldToChunk(position, CHUNK_SIZE)
    IN ChunkUtils_create(layerId, c.cx, c.cy, c.cz)

\* getNeighboringChunks, as the set of the keys it lists
getNeighboringChunks(centerChunk, radius) ==
    { ChunkUtils_create(centerChunk.layerId, centerChunk.cx + dx,
                        centerChunk.cy + dy, centerChunk.cz + dz) :
        dx \in (0 - radius)..radius, dy \in (0 - radius)..radius,
        dz \in (0 - radius)..radius }

\* worldToChunk(Math.max(min, max - 1e-6)) on one axis: the index of the cell of
\* the exclusive upper end, for ends on the grid of thousandths
MaxExclusiveIndex(min, max, extent) ==
    IF max * 1000 - 1 >= min * 1000 THEN FloorDiv(max * 1000 - 1, extent * 1000)
    ELSE FloorDiv(min, extent)

\* The three nested loops of getIntersectingChunks over cx, cy, cz (cz innermost)
ChunkLoop(layerId, x0, nx, y0, ny, z0, nz) ==
    [i \in 1..(Max2(0, nx) * Max2(0, ny) * Max2(0, nz)) |->
        ChunkUtils_create(layerId, x0 + ((i - 1) \div (ny * nz)),
                          y0 + (((i - 1) \div nz) % ny), z0 + ((i - 1) % nz))]

\* getIntersectingChunks: the keys in the order pushed; the clamp to the origin
\* chunk is made on the x and z axes only
getIntersectingChunks(layerId, bounds, size) ==
    LET minChunk == worldToChunk(bounds.min, size)
        clampX == bounds.min.x < 0 /\ bounds.max.x > 0
                     /\ bounds.max.x - bounds.min.x < size * Unit
        clampZ == bounds.min.z < 0 /\ bounds.max.z > 0
                     /\ bounds.max.z - bounds.min.z < size * Unit
        x0 == IF clampX THEN 0 ELSE minChunk.cx
        x1 == IF clampX THEN 0
              ELSE MaxExclusiveIndex(bounds.min.x, bounds.max.x, size * Unit)
        z0 == IF clampZ THEN 0 ELSE minChunk.cz
        z1 == IF clampZ THEN 0
              ELSE MaxExclusiveIndex(bounds.min.z, bounds.max.z, size * Unit)
        y1 == MaxExclusiveIndex(bounds.min.y, bounds.max.y, CHUNK_HEIGHT * Unit)
    IN ChunkLoop(layerId, x0, x1 - x0 + 1, minChunk.cy, y1 - minChunk.cy + 1,
                 z0, z1 - z0 + 1)

(***************************************************************************)
(* ChunkManager.  cm = [chunks, loadedChunks]: chunks maps a key string to *)
(* its record, loadedChunks is the set of loaded key strings.  A world     *)
(* w = [st, cm, log] pairs it with the entity store it creates blocks in.  *)
(***************************************************************************)
\* initializeSolidGrid's default resolution
SolidGridResolution == 16
\* chunk.solidGrid undefined
NoGrid == [width |-> 0, solid |-> {}]

EmptyChunks == [chunks |-> EmptyMap, loadedChunks |-> {}]

\* getChunk: the manager after the lookup (a missing record is created)
getChunk(cm, chunkKey) ==
    LET keyStr == ChunkUtils_toString(chunkKey)
    IN IF keyStr \in DOMAIN cm.chunks THEN cm
       ELSE [cm EXCEPT !.chunks =
                MapSet(cm.chunks, keyStr,
                       [key |-> chunkKey, entities |-> <<>>, loaded |-> FALSE,
                        version |-> 1, solidGrid |-> NoGrid, subscriptions |-> <<>>])]

\* markChunkModified
markChunkModified(chunk) == [chunk EXCEPT !.version = chunk.version + 1]

\* setSolid(chunk, x, y, z, true)
setSolid(chunk, x, y, z) ==
    IF chunk.solidGrid.width = 0 THEN chunk
    ELSE IF x < 0 \/ x >= chunk.solidGrid.width \/ y < 0 \/ y >= chunk.solidGrid.width
            \/ z < 0 \/ z >= chunk.solidGrid.width THEN chunk
    ELSE markChunkModified([chunk EXCEPT !.solidGrid.solid = @ \cup {<<x, y, z>>}])

\* isSolid
isSolid(chunk, x, y, z) ==
    /\ chunk.solidGrid.width # 0
    /\ ~(x < 0 \/ x >= chunk.solidGrid.width \/ y < 0 \/ y >= chunk.solidGrid.width
         \/ z < 0 \/ z >= chunk.solidGrid.width)
    /\ <<x, y, z>> \in chunk.solidGrid.solid

GeneratedBlockId(key) ==
    "generated-block-" \o key.layerId \o "-" \o ToString(key.cx) \o "-" \o ToString(key.cz)

GeneratedBlockContracts(key) ==
    << createIdentity(GeneratedBlockId(key)),
       createMobility(Vec3(key.cx * CHUNK_SIZE * Unit + (CHUNK_SIZE * Unit) \div 2, 0,
                           key.cz * CHUNK_SIZE * Unit + (CHUNK_SIZE * Unit) \div 2),
                      NoNumber),
       createShape(Vec3(0 - Unit \div 2, 0 - Unit \div 2, 0 - Unit \div 2),
                   Vec3(Unit \div 2, Unit \div 2, Unit \div 2)),
       [type |-> "visual"],
       createSolidity(TRUE) >>

\* chunk.entities.add(entityId); markChunkModified; setSolid at the grid centre
BlockAdded(chunk, key) ==
    setSolid(markChunkModified([chunk EXCEPT !.entities = OrdAdd(@, GeneratedBlockId(key))]),
             SolidGridResolution \div 2, SolidGridResolution \div 2,
             SolidGridResolution \div 2)

\* generateChunkContent on the record stored under keyStr, whose key is key
generateChunkContent(w, keyStr, key) ==
    Bind([w EXCEPT !.cm.chunks[keyStr].solidGrid =
                       [width |-> SolidGridResolution, solid |-> {}]],
         LAMBDA w1 :
           IF key.cy # 0 THEN w1
           ELSE IF ~(JsRem(key.cx, 4) = 0 /\ JsRem(key.cz, 4) = 0) THEN w1
           ELSE IF hasEntity(w.st, GeneratedBlockId(key)) THEN w1
           ELSE Bind(createEntity(w.st, DefaultLimits, GeneratedBlockId(key),
                                  GeneratedBlockContracts(key)),
                     LAMBDA r :
                       [st |-> r.st,
                        cm |-> [w1.cm EXCEPT !.chunks[keyStr] = BlockAdded(@, key)],
                        log |-> w.log \o r.log]))

\* loadChunk
loadChunk(w, chunkKey) ==
    Bind([w EXCEPT !.cm = getChunk(w.cm, chunkKey)], LAMBDA w0 :
      IF w0.cm.chunks[ChunkUtils_toString(chunkKey)].loaded THEN w0
      ELSE [generateChunkContent(w0, ChunkUtils_toString(chunkKey), chunkKey)
               EXCEPT !.cm.chunks[ChunkUtils_toString(chunkKey)].loaded = TRUE,
                      !.cm.loadedChunks = @ \cup {ChunkUtils_toString(chunkKey)}])

\* emitSnapshot: the chunk_data message
emitSnapshot(chunk) ==
    [type |-> "chunk_data", chunkKey |-> chunk.key, entities |-> chunk.entities,
     version |-> chunk.version]

\* ChunkManager.subscribe: [cm, out], out the snapshot sent to ws
subscribe(cm, ws, chunkKey) ==
    Bind([getChunk(cm, chunkKey) EXCEPT
             !.chunks[ChunkUtils_toString(chunkKey)].subscriptions = OrdAdd(@, ws)],
         LAMBDA cm1 :
           [cm |-> cm1,
            out |-> <<emitSnapshot(cm1.chunks[ChunkUtils_toString(chunkKey)])>>])

\* emitDelta: the deliveries [to, message], one to each subscriber of the chunk
emitDelta(chunk, deltaType, entityId) ==
    [i \in 1..Len(chunk.subscriptions) |->
        [to |-> chunk.subscriptions[i],
         message |-> [type |-> "chunk_delta", chunkKey |-> chunk.key,
                      delta |-> [type |-> deltaType, entityId |-> entityId],
                      version |-> chunk.version]]]

\* addEntityToChunk: [cm, bc]
addEntityToChunk(cm, entityId, chunkKey) ==
    Bind([getChunk(cm, chunkKey) EXCEPT
             !.chunks[ChunkUtils_toString(chunkKey)] =
                 markChunkModified([@ EXCEPT !.entities = OrdAdd(@, entityId)])],
         LAMBDA cm1 :
           [cm |-> cm1,
            bc |-> emitDelta(cm1.chunks[ChunkUtils_toString(chunkKey)],
                             "entity_add", entityId)])

\* removeEntityFromChunk: [cm, bc]
removeEntityFromChunk(cm, entityId, chunkKey) ==
    IF ChunkUtils_toString(chunkKey) \notin DOMAIN cm.chunks THEN [cm |-> cm, bc |-> <<>>]
    ELSE IF entityId \notin Range(cm.chunks[ChunkUtils_toString(chunkKey)].entities)
    THEN [cm |-> cm, bc |-> <<>>]
    ELSE Bind([cm EXCEPT
                  !.chunks[ChunkUtils_toString(chunkKey)] =
                      markChunkModified([@ EXCEPT !.entities = OrdDel(@, entityId)])],
              LAMBDA cm1 :
                [cm |-> cm1,
                 bc |-> emitDelta(cm1.chunks[ChunkUtils_toString(chunkKey)],
                                  "entity_remove", entityId)])

(***************************************************************************)
(* Movement system (world/systems/movement.js) over a store st and a      *)
(* chunk manager cm.  An entry or exit parameter t of the slab method is   *)
(* an exact ratio [n, d] with d > 0.                                       *)
(***************************************************************************)
\* const maxSpeed = mobility.maxSpeed || 5
DefaultMaxSpeed == 5

EffectiveMaxSpeed(mobility) ==
    IF mobility.maxSpeed = NoNumber \/ mobility.maxSpeed = 0 THEN DefaultMaxSpeed
    ELSE mobility.maxSpeed

Ratio(n, d) == IF d < 0 THEN [n |-> 0 - n, d |-> 0 - d] ELSE [n |-> n, d |-> d]
RatioLess(a, b) == a.n * b.d < b.n * a.d

\* getEntityAABB
getEntityAABB(shape, position) ==
    [min |-> Vec3Utils_add(shape.bounds.min, position),
     max |-> Vec3Utils_add(shape.bounds.max, position)]

\* getChunksForMovement, as the set of the keys it lists
getChunksForMovement(startPos, endPos) ==
    {keyFromPos("default", startPos), keyFromPos("default", endPos)}
        \cup getNeighboringChunks(keyFromPos("default", startPos), 1)

\* The result every check returns when nothing is hit
NoCollision(displacement) ==
    [hit |-> FALSE, distance |-> Vec3Utils_length(displacement), entityId |-> "",
     normal |-> [x |-> 0, y |-> 1, z |-> 0]]

\* The cells [lo, hi) of one axis that checkStaticSolids visits for the end box
GridCells(lo, hi, extent, gridRes) ==
    Max2(0, FloorDiv(JsRem(lo, extent) * gridRes, extent))
        .. (Min2(gridRes, CeilDiv(JsRem(hi, extent) * gridRes, extent)) - 1)

\* checkStaticSolids on the record getChunk returns: the end box is tested
\* against the solid cells, and a hit is reported at half the displacement
checkStaticSolids(chunk, movingAABB, displacement) ==
    IF chunk.solidGrid.width = 0 THEN NoCollision(displacement)
    ELSE IF \E x \in GridCells(movingAABB.min.x + displacement.x,
                               movingAABB.max.x + displacement.x,
                               32 * Unit, chunk.solidGrid.width) :
            \E y \in GridCells(movingAABB.min.y + displacement.y,
                               movingAABB.max.y + displacement.y,
                               256 * Unit, chunk.solidGrid.width) :
            \E z \in GridCells(movingAABB.min.z + displacement.z,
                               movingAABB.max.z + displacement.z,
                               32 * Unit, chunk.solidGrid.width) :
               isSolid(chunk, x, y, z)
    THEN [hit |-> TRUE, distance |-> Vec3Utils_length(displacement) \div 2,
          entityId |-> "", normal |-> [x |-> 0, y |-> 1, z |-> 0]]
    ELSE NoCollision(displacement)

\* normal[axis] = d > 0 ? -1 : 1 on the zero vector (a unit vector, not a length)
AxisNormal(axis, d) ==
    [[x |-> 0, y |-> 0, z |-> 0] EXCEPT ![axis] = IF d > 0 THEN 0 - 1 ELSE 1]

\* One axis of the slab method: the state [hit, tmin, tmax, normal] after the
\* axis; the normal is set only when the entry of the axis is above tmin
SlabAxis(axis, s, d, min, max, acc) ==
    IF ~acc.hit THEN acc
    ELSE IF d = 0
    THEN (IF s < min \/ s > max THEN [acc EXCEPT !.hit = FALSE] ELSE acc)
    ELSE Bind([t1 |-> IF RatioLess(Ratio(max - s, d), Ratio(min - s, d))
                      THEN Ratio(max - s, d) ELSE Ratio(min - s, d),
               t2 |-> IF RatioLess(Ratio(max - s, d), Ratio(min - s, d))
                      THEN Ratio(min - s, d) ELSE Ratio(max - s, d)],
              LAMBDA t :
                Bind([hit |-> TRUE,
                      tmin |-> IF RatioLess(acc.tmin, t.t1) THEN t.t1 ELSE acc.tmin,
                      tmax |-> IF RatioLess(t.t2, acc.tmax) THEN t.t2 ELSE acc.tmax,
                      normal |-> IF RatioLess(acc.tmin, t.t1) THEN AxisNormal(axis, d)
                                 ELSE acc.normal],
                     LAMBDA a :
                       IF RatioLess(a.tmax, a.tmin) THEN [a EXCEPT !.hit = FALSE]
                       ELSE a))

\* intersectSegmentAABB: [hit, t, normal]
intersectSegmentAABB(start, end, aabb) ==
    Bind(SlabAxis("z", start.z, end.z - start.z, aabb.min.z, aabb.max.z,
           SlabAxis("y", start.y, end.y - start.y, aabb.min.y, aabb.max.y,
             SlabAxis("x", start.x, end.x - start.x, aabb.min.x, aabb.max.x,
                      [hit |-> TRUE, tmin |-> Ratio(0, 1), tmax |-> Ratio(1, 1),
                       normal |-> [x |-> 0, y |-> 0, z |-> 0]]))),
         LAMBDA a :
           [hit |-> a.hit /\ ~RatioLess(a.tmin, Ratio(0, 1))
                          /\ ~RatioLess(Ratio(1, 1), a.tmin),
            t |-> IF a.hit THEN a.tmin ELSE Ratio(1, 1),
            normal |-> IF a.hit THEN a.normal ELSE [x |-> 0, y |-> 0, z |-> 0]])

\* The sweep of checkDynamicSolid: the centre of the moving box against the
\* other box expanded by the half extents of the moving box
SweepAgainst(movingAABB, displacement, otherAABB, otherEntityId) ==
    Bind([half |-> Vec3((movingAABB.max.x - movingAABB.min.x) \div 2,
                        (movingAABB.max.y - movingAABB.min.y) \div 2,
                        (movingAABB.max.z - movingAABB.min.z) \div 2),
          startCenter |-> Vec3((movingAABB.min.x + movingAABB.max.x) \div 2,
                               (movingAABB.min.y + movingAABB.max.y) \div 2,
                               (movingAABB.min.z + movingAABB.max.z) \div 2)],
         LAMBDA b :
           Bind(intersectSegmentAABB(b.startCenter,
                                     Vec3Utils_add(b.startCenter, displacement),
                                     [min |-> Vec3Utils_subtract(otherAABB.min, b.half),
                                      max |-> Vec3Utils_add(otherAABB.max, b.half)]),
                LAMBDA sweep :
                  IF sweep.hit
                  THEN [hit |-> TRUE,
                        distance |-> TruncDiv(sweep.t.n * Vec3Utils_length(displacement),
                                              sweep.t.d),
                        entityId |-> otherEntityId, normal |-> sweep.normal]
                  ELSE NoCollision(displacement)))

checkDynamicSolidMutant(st, movingAABB, displacement, otherEntityId) ==
    IF getContract(st, otherEntityId, "solidity") = <<>> THEN NoCollision(displacement)
    ELSE IF getContract(st, otherEntityId, "shape") = <<>>
            \/ getContract(st, otherEntityId, "mobility") = <<>>
    THEN NoCollision(displacement)
    ELSE SweepAgainst(movingAABB, displacement,
                      getEntityAABB(getContract(st, otherEntityId, "shape")[1],
                                    getContract(st, otherEntityId, "mobility")[1].position),
                      otherEntityId)

\* checkDynamicSolid
checkDynamicSolid(st, movingAABB, displacement, otherEntityId) ==
    IF getContract(st, otherEntityId, "solidity") = <<>> THEN NoCollision(displacement)
    ELSE IF ~getContract(st, otherEntityId, "solidity")[1].solid
    THEN NoCollision(displacement)
    ELSE IF getContract(st, otherEntityId, "shape") = <<>>
            \/ getContract(st, otherEntityId, "mobility") = <<>>
    THEN NoCollision(displacement)
    ELSE SweepAgainst(movingAABB, displacement,
                      getEntityAABB(getContract(st, otherEntityId, "shape")[1],
                                    getContract(st, otherEntityId, "mobility")[1].position),
                      otherEntityId)

\* if (collision.hit && collision.distance < closestCollision.distance)
Closer(collision, closestCollision) ==
    IF collision.hit /\ collision.distance < closestCollision.distance THEN collision
    ELSE closestCollision

\* The loop of performSweptAABB over the affected chunks
RECURSIVE ClosestStatic(_, _, _, _, _)
ClosestStatic(cm, keys, movingAABB, displacement, closest) ==
    IF keys = {} THEN closest
    ELSE LET k == CHOOSE x \in keys : TRUE
         IN ClosestStatic(cm, keys \ {k}, movingAABB, displacement,
                Closer(checkStaticSolids(
                           getChunk(cm, k).chunks[ChunkUtils_toString(k)],
                           movingAABB, displacement),
                       closest))

\* The loop of performSweptAABB over the solid entities, in index order
RECURSIVE ClosestDynamic(_, _, _, _, _)
ClosestDynamic(st, others, movingAABB, displacement, closest) ==
    IF others = <<>> THEN closest
    ELSE ClosestDynamic(st, Tail(others), movingAABB, displacement,
             Closer(checkDynamicSolid(st, movingAABB, displacement, Head(others)),
                    closest))

\* performSweptAABB
performSweptAABB(w, entityId, startPos, endPos, shape) ==
    ClosestDynamic(w.st,
        OrdDel(getEntitiesWithContract(w.st, "solidity"), entityId),
        getEntityAABB(shape, startPos), Vec3Utils_subtract(endPos, startPos),
        ClosestStatic(w.cm, getChunksForMovement(startPos, endPos),
                      getEntityAABB(shape, startPos),
                      Vec3Utils_subtract(endPos, startPos),
                      NoCollision(Vec3Utils_subtract(endPos, startPos))))

\* The chunk records checkStaticSolids creates by looking the chunks up
RECURSIVE GetChunks(_, _)
GetChunks(cm, keys) ==
    IF keys = {} THEN cm
    ELSE LET k == CHOOSE x \in keys : TRUE
         IN GetChunks(getChunk(cm, k), keys \ {k})

\* clampMovementToCollision: the factor distance / length - epsilon in thousandths.
\* A hit has distance < length (Closer), so the length is never 0 here
clampMovementToCollision(startPos, endPos, collision) ==
    Vec3Utils_add(startPos,
        ScaleVec3(Vec3Utils_subtract(endPos, startPos),
                  Max2(0, TruncDiv(collision.distance * Unit,
                                   Vec3Utils_length(Vec3Utils_subtract(endPos, startPos)))
                          - COLLISION_EPSILON),
                  Unit))

ActualDistanceMutant(wantDistance, maxDisplacement) == wantDistance

\* const actualDistance = Math.min(wantDistance, maxDisplacement)
ActualDistance(wantDistance, maxDisplacement) == Min2(wantDistance, maxDisplacement)

\* attemptMove from the proposed position on: the sweep and the clamp
SweptMove(w, entityId, currentPosition, proposedPosition, shape) ==
    Bind(performSweptAABB(w, entityId, currentPosition, proposedPosition, shape),
         LAMBDA collision :
           IF ~collision.hit
           THEN [ok |-> TRUE, position |-> proposedPosition, blockedReason |-> "",
                 collisionNormal |-> <<>>,
                 cm |-> GetChunks(w.cm, getChunksForMovement(currentPosition,
                                                             proposedPosition))]
           ELSE [ok |-> FALSE,
                 position |-> clampMovementToCollision(currentPosition, proposedPosition,
                                                       collision),
                 blockedReason |-> IF collision.entityId # ""
                                   THEN "Blocked by entity " \o collision.entityId
                                   ELSE "Blocked by solid",
                 collisionNormal |-> <<collision.normal>>,
                 cm |-> GetChunks(w.cm, getChunksForMovement(currentPosition,
                                                             proposedPosition))])

\* attemptMove for an entity with mobility and shape; deltaTime in milliseconds.
\* normalize(direction) * actualDistance is direction * actualDistance / length
LimitedMove(w, entityId, mobility, shape, want, deltaTime) ==
    Bind(Vec3Utils_subtract(want, mobility.position), LAMBDA direction :
      Bind(Vec3Utils_length(direction), LAMBDA wantDistance :
        IF wantDistance < COLLISION_EPSILON
        THEN [ok |-> TRUE, position |-> mobility.position, blockedReason |-> "",
              collisionNormal |-> <<>>, cm |-> w.cm]
        ELSE SweptMove(w, entityId, mobility.position,
                       Vec3Utils_add(mobility.position,
                           ScaleVec3(direction,
                                     ActualDistance(wantDistance,
                                         EffectiveMaxSpeed(mobility) * deltaTime),
                                     wantDistance)),
                       shape)))

attemptMoveMutant(w, entityId, want, deltaTime) ==
    IF getContract(w.st, entityId, "mobility") = <<>>
       \/ getContract(w.st, entityId, "shape") = <<>>
    THEN [ok |-> FALSE, position |-> Vec3(0, 0, 0),
          blockedReason |-> "No mobility contract", collisionNormal |-> <<>>,
          cm |-> w.cm]
    ELSE LimitedMove(w, entityId, getContract(w.st, entityId, "mobility")[1],
                     getContract(w.st, entityId, "shape")[1], want, deltaTime)

\* attemptMove: [ok, position, blockedReason, collisionNormal] (<<>> is an absent
\* normal) and the chunk manager afterwards
attemptMove(w, entityId, want, deltaTime) ==
    IF getContract(w.st, entityId, "mobility") = <<>>
    THEN [ok |-> FALSE, position |-> Vec3(0, 0, 0),
          blockedReason |-> "No mobility contract", collisionNormal |-> <<>>,
          cm |-> w.cm]
    ELSE IF getContract(w.st, entityId, "shape") = <<>>
    THEN [ok |-> FALSE, position |-> getContract(w.st, entityId, "mobility")[1].position,
          blockedReason |-> "No shape contract", collisionNormal |-> <<>>, cm |-> w.cm]
    ELSE LimitedMove(w, entityId, getContract(w.st, entityId, "mobility")[1],
                     getContract(w.st, entityId, "shape")[1], want, deltaTime)

\* moveEntity: the position of the result is stored (result.position is always
\* an object); [r, result] with r the outcome of the store call
moveEntity(w, entityId, targetPosition, deltaTime) ==
    Bind(attemptMove(w, entityId, targetPosition, deltaTime), LAMBDA result :
      [result |-> result,
       r |-> IF getContract(w.st, entityId, "mobility") = <<>>
             THEN [st |-> w.st, log |-> <<>>, err |-> "none"]
             ELSE addContract(w.st, DefaultLimits, entityId,
                              [getContract(w.st, entityId, "mobility")[1]
                                  EXCEPT !.position = result.position])])

\* checkCollision: attemptMove with a deltaTime of 0.016 s; [blocked, cm]
QuickCheckMillis == 16

checkCollision(w, entityId, newPosition) ==
    [blocked |-> ~attemptMove(w, entityId, newPosition, QuickCheckMillis).ok,
     cm |-> attemptMove(w, entityId, newPosition, QuickCheckMillis).cm]

\* { ...mobility, position, velocity: {x: 0, y: 0, z: 0} }
Teleported(mobility, position) ==
    [k \in DOMAIN mobility \cup {"position", "velocity"} |->
        IF k = "position" THEN position
        ELSE IF k = "velocity" THEN Vec3(0, 0, 0)
        ELSE mobility[k]]

\* teleport: [ok, st, cm], ok being the boolean returned
teleport(w, entityId, position) ==
    IF getContract(w.st, entityId, "mobility") = <<>>
    THEN [ok |-> FALSE, st |-> w.st, cm |-> w.cm]
    ELSE IF checkCollision(w, entityId, position).blocked
    THEN [ok |-> FALSE, st |-> w.st, cm |-> checkCollision(w, entityId, position).cm]
    ELSE [ok |-> TRUE,
          st |-> addContract(w.st, DefaultLimits, entityId,
                             Teleported(getContract(w.st, entityId, "mobility")[1],
                                        position)).st,
          cm |-> checkCollision(w, entityId, position).cm]

(***************************************************************************)
(* BasicDurabilitySystem hooks and WorldState.  A world state is           *)
(* wd = [st, ebl, pc]: the store, entitiesByLayer (a Map in insertion      *)
(* order: a sequence of [layer, members]) and playerCounter.               *)
(***************************************************************************)
DEFAULT_DURABILITY == createDurability(1, 1)

\* ensureDurability: the store afterwards (its throw is caught by the caller)
ensureDurability(st, entityId) ==
    IF getContract(st, entityId, "identity") = <<>> THEN st
    ELSE IF getContract(st, entityId, "durability") # <<>> THEN st
    ELSE addContract(st, DefaultLimits, entityId, DEFAULT_DURABILITY).st

\* The identity hook of the durability system: setTimeout(ensureDurability, 0)
\* for every identity added, run when the handler that added them has returned
RECURSIVE RunDurabilityTimers(_, _)
RunDurabilityTimers(st, log) ==
    IF log = <<>> THEN st
    ELSE IF Head(log).ev = "contractAdd" /\ Head(log).type = "identity"
         THEN RunDurabilityTimers(ensureDurability(st, Head(log).id), Tail(log))
         ELSE RunDurabilityTimers(st, Tail(log))

\* let layerEntities = entitiesByLayer.get(layerId) ...; layerEntities.add(id)
LayerAdd(ebl, layerId, entityId) ==
    IF \E i \in 1..Len(ebl) : ebl[i].layer = layerId
    THEN LET i == CHOOSE j \in 1..Len(ebl) : ebl[j].layer = layerId
         IN [ebl EXCEPT ![i].members = OrdAdd(@, entityId)]
    ELSE Append(ebl, [layer |-> layerId, members |-> <<entityId>>])

\* removeEntityFromLayerTracking: the first layer listing the entity drops it
removeEntityFromLayerTracking(ebl, entityId) ==
    LET holders == {i \in 1..Len(ebl) : entityId \in Range(ebl[i].members)}
    IN IF holders = {} THEN ebl
       ELSE LET i == CHOOSE j \in holders : \A k \in holders : j <= k
            IN IF Len(ebl[i].members) = 1 THEN RemoveAt(ebl, i)
               ELSE [ebl EXCEPT ![i].members = OrdDel(@, entityId)]

\* setupEntityTracking and the entity-remove hook of initializeWorld, run over
\* the lifecycle events of one store call in the order they were fired
RECURSIVE TrackLayers(_, _)
TrackLayers(ebl, log) ==
    IF log = <<>> THEN ebl
    ELSE LET e == Head(log)
         IN IF e.ev = "contractAdd" /\ e.type = "mobility"
            THEN TrackLayers(LayerAdd(ebl, "default", e.id), Tail(log))
            ELSE IF (e.ev = "contractRemove" /\ e.type = "mobility") \/ e.ev = "entityRemove"
            THEN TrackLayers(removeEntityFromLayerTracking(ebl, e.id), Tail(log))
            ELSE TrackLayers(ebl, Tail(log))

getEntitiesInLayer(ebl, layerId) ==
    IF \E i \in 1..Len(ebl) : ebl[i].layer = layerId
    THEN ebl[CHOOSE j \in 1..Len(ebl) : ebl[j].layer = layerId].members
    ELSE <<>>

\* createApp's layer 'default' spawns at (0,2,0); an unknown layer id falls back
\* to the registry's built-in default layer, which spawns at (0,10,0)
SpawnPoint(layerId) ==
    IF layerId = "default" THEN Vec3(0, 2 * Unit, 0) ELSE Vec3(0, 10 * Unit, 0)

\* createBoxShape(center, size)
createBoxShape(center, size) ==
    createShape(Vec3(center.x - size.x \div 2, center.y - size.y \div 2,
                     center.z - size.z \div 2),
                Vec3(center.x + size.x \div 2, center.y + size.y \div 2,
                     center.z + size.z \div 2))

createMovementRules(stepDistance, allowDiagonal, diagonalNormalized) ==
    [type |-> "movement_rules", stepDistance |-> stepDistance,
     allowDiagonal |-> allowDiagonal, diagonalNormalized |-> diagonalNormalized]

createPlayerContracts(playerId, spawnPosition) ==
    << createIdentity(playerId),
       createMobility(spawnPosition, 5),
       createBoxShape(spawnPosition, Vec3((6 * Unit) \div 10, (18 * Unit) \div 10,
                                          (6 * Unit) \div 10)),
       [type |-> "visual"],
       [type |-> "inventory"],
       createDurability(100, 100),
       createMovementRules(Unit, TRUE, TRUE),
       createCommandAccess(<<"login", "logout", "set_view", "move_dir">>),
       createContractLimit(<<[contractType |-> "entrance", max |-> 5],
                             [contractType |-> "portable", max |-> 3]>>) >>

PlayerId(n) == "player-" \o ToString(n)

\* A store call made through the running server: its hooks update the layer
\* tracking, and the durability timers it started have run
Hooked(wd, r) ==
    [st |-> RunDurabilityTimers(r.st, r.log),
     ebl |-> TrackLayers(wd.ebl, r.log),
     pc |-> wd.pc]

\* addPlayer: [wd, id, err]; a throw of createEntity leaves the counter advanced
addPlayer(wd, layerId) ==
    Bind(createEntity(wd.st, DefaultLimits, PlayerId(wd.pc + 1),
                      createPlayerContracts(PlayerId(wd.pc + 1), SpawnPoint(layerId))),
         LAMBDA r :
           Bind(Hooked([wd EXCEPT !.pc = wd.pc + 1], r), LAMBDA h :
             IF r.err # "none" THEN [wd |-> h, id |-> "", err |-> r.err]
             ELSE [wd |-> [h EXCEPT !.ebl = LayerAdd(h.ebl, layerId, PlayerId(wd.pc + 1))],
                   id |-> PlayerId(wd.pc + 1), err |-> "none"]))

\* removePlayer
removePlayer(wd, playerId) == Hooked(wd, removeEntity(wd.st, playerId))

\* calculateActualDamage: armor takes 1% per point, 75% at most (exact where
\* the damage is counted in hundredths of a point, as SpecHealth counts it; the
\* entities of the server carry no armor)
calculateActualDamage(damage, armor) ==
    IF armor = NoNumber \/ armor <= 0 THEN damage
    ELSE (damage * (100 - Min2(75, armor))) \div 100

\* destroyEntity: ecsWorld.removeEntity after the (unregistered) destroy handlers
destroyEntity(st, entityId) == removeEntity(st, entityId)

\* BasicDurabilitySystem.damage: [st, log, ok], ok being the boolean returned
damage(st, entityId, amount) ==
    Bind(getContract(st, entityId, "durability"), LAMBDA durability :
      IF durability = <<>> THEN [st |-> st, log |-> <<>>, ok |-> FALSE]
      ELSE IF calculateActualDamage(amount, durability[1].armor) <= 0
      THEN [st |-> st, log |-> <<>>, ok |-> FALSE]
      ELSE Bind(Max2(0, durability[1].health
                          - calculateActualDamage(amount, durability[1].armor)),
                LAMBDA newHealth :
                  Bind(addContract(st, DefaultLimits, entityId,
                                   [durability[1] EXCEPT !.health = newHealth]),
                       LAMBDA r :
                         IF r.err # "none" THEN [st |-> r.st, log |-> r.log, ok |-> FALSE]
                         ELSE IF newHealth <= 0
                         THEN Bind(destroyEntity(r.st, entityId), LAMBDA d :
                                [st |-> d.st, log |-> r.log \o d.log, ok |-> TRUE])
                         ELSE [st |-> r.st, log |-> r.log, ok |-> TRUE])))

HealedHealthMutant(durability, amount) == durability.health + amount

\* const newHealth = Math.min(durability.maxHealth, durability.health + amount)
HealedHealth(durability, amount) ==
    Min2(durability.maxHealth, durability.health + amount)

\* BasicDurabilitySystem.heal: [st, log, ok]
heal(st, entityId, amount) ==
    Bind(getContract(st, entityId, "durability"), LAMBDA durability :
      IF durability = <<>> THEN [st |-> st, log |-> <<>>, ok |-> FALSE]
      ELSE IF durability[1].health >= durability[1].maxHealth
      THEN [st |-> st, log |-> <<>>, ok |-> FALSE]
      ELSE IF HealedHealth(durability[1], amount) - durability[1].health <= 0
      THEN [st |-> st, log |-> <<>>, ok |-> FALSE]
      ELSE Bind(addContract(st, DefaultLimits, entityId,
                            [durability[1] EXCEPT
                                !.health = HealedHealth(durability[1], amount)]),
                LAMBDA r : [st |-> r.st, log |-> r.log, ok |-> r.err = "none"]))

\* BasicDurabilitySystem.repair
repair(st, entityId) ==
    IF getContract(st, entityId, "durability") = <<>>
    THEN [st |-> st, log |-> <<>>, ok |-> FALSE]
    ELSE heal(st, entityId,
              getContract(st, entityId, "durability")[1].maxHealth
                  - getContract(st, entityId, "durability")[1].health)

(***************************************************************************)
(* WebSocket session layer (ws-enhanced.ts).  A server state is            *)
(* S = [st, ebl, pc, clients, subs]: the world state, the connections      *)
(* (clients maps a socket to [open, playerId, subscribedChunks,            *)
(* viewRadius], playerId "" = undefined) and chunkSubscriptions.  Every    *)
(* handler yields [S, out]: the state afterwards and the messages it sent  *)
(* to its socket, in order.                                                *)
(***************************************************************************)
\* A ClientConnection: open is the socket's state, mapped says that the maps
\* clients and clientsById hold the connection
NewClient ==
    [open |-> TRUE, mapped |-> TRUE, playerId |-> "", subscribedChunks |-> {},
     viewRadius |-> NoNumber]

ClosedClient == [NewClient EXCEPT !.open = FALSE, !.mapped = FALSE]

WorldOf(S) == [st |-> S.st, ebl |-> S.ebl, pc |-> S.pc]
WithWorld(S, wd) == [S EXCEPT !.st = wd.st, !.ebl = wd.ebl, !.pc = wd.pc]

ErrorMessage(code) == [type |-> "error", code |-> code]
MoveResult(success, position) ==
    [type |-> "move_result", success |-> success, position |-> position]

\* subscribers.delete(clientId) without the removal of an emptied subscriber set
SubsRemoveMutant(subs, keyStr, clientId) ==
    IF keyStr \notin DOMAIN subs THEN subs
    ELSE MapSet(subs, keyStr, subs[keyStr] \ {clientId})

\* subscribers.delete(clientId); if (subscribers.size === 0) subscriptions.delete(key)
SubsRemove(subs, keyStr, clientId) ==
    IF keyStr \notin DOMAIN subs THEN subs
    ELSE IF subs[keyStr] \ {clientId} = {} THEN MapDel(subs, keyStr)
    ELSE MapSet(subs, keyStr, subs[keyStr] \ {clientId})

\* let subscribers = subscriptions.get(key) || new Set(); subscribers.add(clientId)
SubsAdd(subs, keyStr, clientId) ==
    MapSet(subs, keyStr,
           (IF keyStr \in DOMAIN subs THEN subs[keyStr] ELSE {}) \cup {clientId})

RECURSIVE SubsRemoveAll(_, _, _)
SubsRemoveAll(subs, keys, clientId) ==
    IF keys = {} THEN subs
    ELSE LET k == CHOOSE x \in keys : TRUE
         IN SubsRemoveAll(SubsRemove(subs, k, clientId), keys \ {k}, clientId)

\* cleanupClientSubscriptions
cleanupClientSubscriptions(S, c) ==
    [S EXCEPT !.subs = SubsRemoveAll(S.subs, S.clients[c].subscribedChunks, c),
              !.clients[c].subscribedChunks = {}]

\* sendChunkSnapshot: every entity of the world, and the version is always 1
sendChunkSnapshot(st, chunkKey) ==
    [type |-> "chunk_snapshot", chunkKey |-> chunkKey,
     entities |-> DOMAIN st.entities, version |-> 1]

\* broadcastEntityUpdate: the deliveries [to, message] it makes.  The message
\* is built, and the loop over the subscribers of the chunk only logs
broadcastEntityUpdate(S, entityId, chunkKey, updateType) ==
    IF ChunkUtils_toString(chunkKey) \notin DOMAIN S.subs THEN <<>>
    ELSE IF S.subs[ChunkUtils_toString(chunkKey)] = {} THEN <<>>
    ELSE <<>>

\* const defaultChunk = { layerId: 'default', cx: 0, cy: 0, cz: 0 }
DefaultChunk == ChunkUtils_create("default", 0, 0, 0)

\* The deliveries of a handler run (none for a handler that broadcasts nothing)
Broadcasts(h) == IF "bc" \in DOMAIN h THEN h.bc ELSE <<>>

\* isCommandAllowed
isCommandAllowed(st, client, command) ==
    LET worldEntities == getEntitiesWithContract(st, "world_commands")
        worldCmds == IF worldEntities = <<>> THEN <<>>
                     ELSE getContract(st, worldEntities[1], "world_commands")
        access == getContract(st, client.playerId, "command_access")
    IN IF worldCmds # <<>> /\ command \notin Range(worldCmds[1].commands) THEN FALSE
       ELSE IF client.playerId = "" THEN command = "login"
       ELSE IF access # <<>> THEN command \in Range(access[1].allowed)
       ELSE FALSE

\* computeViewChunks: the chunk radius uses a hard-coded chunk size of 32
computeViewChunks(layerId, position, radius) ==
    getNeighboringChunks(keyFromPos(layerId, position),
                         Max2(0, CeilDiv(radius, CHUNK_SIZE * Unit)))

\* The snapshots of updateAutoSubscriptions, one per newly subscribed key
RECURSIVE Snapshots(_, _)
Snapshots(st, keys) ==
    IF keys = {} THEN <<>>
    ELSE LET k == CHOOSE x \in keys : TRUE
         IN <<sendChunkSnapshot(st, k)>> \o Snapshots(st, keys \ {k})

\* The subscription changes and snapshots of updateAutoSubscriptions for the
\* desired chunk keys
AutoSubscribed(S, c, desired) ==
    LET client == S.clients[c]
        desiredSet == {ChunkUtils_toString(k) : k \in desired}
        addedKeys == desiredSet \ client.subscribedChunks
    IN Bind(SubsRemoveAll(S.subs, client.subscribedChunks \ desiredSet, c), LAMBDA subs1 :
         [S |-> [S EXCEPT !.subs = [k \in DOMAIN subs1 \cup addedKeys |->
                                      IF k \in addedKeys
                                      THEN (IF k \in DOMAIN subs1 THEN subs1[k] ELSE {})
                                           \cup {c}
                                      ELSE subs1[k]],
                          !.clients[c].subscribedChunks = desiredSet],
          out |-> Snapshots(S.st, {k \in desired :
                                     ChunkUtils_toString(k) \notin client.subscribedChunks})])

\* updateAutoSubscriptions
updateAutoSubscriptions(S, c) ==
    IF \/ S.clients[c].playerId = ""
       \/ S.clients[c].viewRadius = NoNumber
       \/ S.clients[c].viewRadius = 0
    THEN [S |-> S, out |-> <<>>]
    ELSE Bind(getContract(S.st, S.clients[c].playerId, "mobility"), LAMBDA mobility :
           IF mobility = <<>> THEN [S |-> S, out |-> <<>>]
           ELSE AutoSubscribed(S, c, computeViewChunks("default", mobility[1].position,
                                                       S.clients[c].viewRadius)))

\* handleLoginMessage; layerId "" is an absent message.layerId.  A throw of
\* addPlayer is caught by the 'message' listener, which sends INVALID_MESSAGE
handleLoginMessage(S, c, layerId) ==
    LET layer == IF layerId = "" THEN "default" ELSE layerId
    IN IF ~isCommandAllowed(S.st, S.clients[c], "login")
       THEN [S |-> S, out |-> <<ErrorMessage("FORBIDDEN")>>]
       ELSE IF S.clients[c].playerId # ""
       THEN [S |-> S, out |-> <<[type |-> "login_ok", playerId |-> S.clients[c].playerId,
                                 layerId |-> layer]>>]
       ELSE Bind(addPlayer(WorldOf(S), layer), LAMBDA a :
              IF a.err # "none"
              THEN [S |-> WithWorld(S, a.wd), out |-> <<ErrorMessage("INVALID_MESSAGE")>>]
              ELSE [S |-> [WithWorld(S, a.wd) EXCEPT !.clients[c].playerId = a.id],
                    out |-> <<[type |-> "login_ok", playerId |-> a.id,
                               layerId |-> layer]>>])

handleLogoutMessageMutant(S, c) ==
    IF ~isCommandAllowed(S.st, S.clients[c], "logout")
    THEN [S |-> S, out |-> <<ErrorMessage("FORBIDDEN")>>]
    ELSE [S |-> cleanupClientSubscriptions(
                    [S EXCEPT !.clients[c].playerId = ""], c),
          out |-> <<[type |-> "logout_ok"]>>]

\* handleLogoutMessage
handleLogoutMessage(S, c) ==
    IF ~isCommandAllowed(S.st, S.clients[c], "logout")
    THEN [S |-> S, out |-> <<ErrorMessage("FORBIDDEN")>>]
    ELSE [S |-> cleanupClientSubscriptions(
                    IF S.clients[c].playerId = "" THEN S
                    ELSE [WithWorld(S, removePlayer(WorldOf(S), S.clients[c].playerId))
                             EXCEPT !.clients[c].playerId = ""],
                    c),
          out |-> <<[type |-> "logout_ok"]>>]

\* ensurePlayer: [S, err]
ensurePlayer(S, c) ==
    IF S.clients[c].playerId # "" THEN [S |-> S, err |-> "none"]
    ELSE Bind(addPlayer(WorldOf(S), "default"), LAMBDA a :
           IF a.err # "none" THEN [S |-> WithWorld(S, a.wd), err |-> a.err]
           ELSE [S |-> [WithWorld(S, a.wd) EXCEPT !.clients[c].playerId = a.id],
                 err |-> "none"])

\* handleSetViewMessage
handleSetViewMessage(S, c, radius) ==
    IF ~isCommandAllowed(S.st, S.clients[c], "set_view")
    THEN [S |-> S, out |-> <<ErrorMessage("FORBIDDEN")>>]
    ELSE Bind(ensurePlayer(S, c), LAMBDA e :
           IF e.err # "none"
           THEN [S |-> e.S, out |-> <<ErrorMessage("INVALID_MESSAGE")>>]
           ELSE IF getContract(e.S.st, e.S.clients[c].playerId, "mobility") = <<>>
           THEN [S |-> e.S, out |-> <<>>]
           ELSE Bind(updateAutoSubscriptions(
                         [e.S EXCEPT !.clients[c].viewRadius = Max2(0, radius)], c),
                     LAMBDA u :
                       [S |-> u.S,
                        out |-> u.out \o <<[type |-> "set_view_ok",
                                            radius |-> Max2(0, radius)]>>]))

\* 1 / Math.SQRT2 in thousandths
InvSqrt2 == 707

\* The step of handleMoveDirMessage along one axis, d in {-1, 0, 1}
DirStep(d, step, normalize) ==
    IF normalize THEN TruncDiv(d * InvSqrt2 * step, Unit) ELSE d * step

\* A replacement of the player's mobility by a handler: addContract with the
\* hooks of the running server
SetPosition(S, playerId, mobility, position) ==
    Bind(addContract(S.st, DefaultLimits, playerId,
                     [mobility EXCEPT !.position = position]),
         LAMBDA r : [S |-> WithWorld(S, Hooked(WorldOf(S), r)), err |-> r.err])

\* The tail of handleMoveDirMessage: the new position is stored as asked, the
\* result sent, the view subscriptions refreshed
MoveDirTo(S, c, mobility, want) ==
    Bind(SetPosition(S, S.clients[c].playerId, mobility, want), LAMBDA p :
      IF p.err # "none"
      THEN [S |-> p.S, out |-> <<MoveResult(FALSE, mobility.position)>>]
      ELSE IF S.clients[c].viewRadius > 0
      THEN Bind(updateAutoSubscriptions(p.S, c), LAMBDA u :
             [S |-> u.S, out |-> <<MoveResult(TRUE, want)>> \o u.out,
              bc |-> broadcastEntityUpdate(p.S, S.clients[c].playerId, DefaultChunk,
                                           "entity_update")])
      ELSE [S |-> p.S, out |-> <<MoveResult(TRUE, want)>>,
            bc |-> broadcastEntityUpdate(p.S, S.clients[c].playerId, DefaultChunk,
                                         "entity_update")])

\* handleMoveDirMessage once the player exists: the step along dx, dz
MoveDirBy(S, c, mobility, movementRules, dx, dz) ==
    LET step == IF movementRules = <<>> THEN Unit ELSE movementRules[1].stepDistance
        normalize == /\ movementRules # <<>>
                     /\ movementRules[1].diagonalNormalized
                     /\ dx # 0 /\ dz # 0
    IN IF mobility = <<>> THEN [S |-> S, out |-> <<>>]
       ELSE IF dx = 0 /\ dz = 0
       THEN [S |-> S, out |-> <<MoveResult(TRUE, mobility[1].position)>>]
       ELSE MoveDirTo(S, c, mobility[1],
                      Vec3(mobility[1].position.x + DirStep(dx, step, normalize),
                           mobility[1].position.y,
                           mobility[1].position.z + DirStep(dz, step, normalize)))

\* handleMoveDirMessage; directions is message.directions
handleMoveDirMessage(S, c, directions) ==
    LET dirs == Range(SubSeq(directions, 1, Min2(2, Len(directions))))
        dx == (IF "east" \in dirs THEN 1 ELSE 0) - (IF "west" \in dirs THEN 1 ELSE 0)
        dz == (IF "south" \in dirs THEN 1 ELSE 0) - (IF "north" \in dirs THEN 1 ELSE 0)
    IN IF ~isCommandAllowed(S.st, S.clients[c], "move_dir")
       THEN [S |-> S, out |-> <<ErrorMessage("FORBIDDEN")>>]
       ELSE Bind(ensurePlayer(S, c), LAMBDA e :
              IF e.err # "none"
              THEN [S |-> e.S, out |-> <<ErrorMessage("INVALID_MESSAGE")>>]
              ELSE MoveDirBy(e.S, c,
                             getContract(e.S.st, e.S.clients[c].playerId, "mobility"),
                             getContract(e.S.st, e.S.clients[c].playerId,
                                         "movement_rules"),
                             dx, dz))

\* handleMoveMessage once the player exists: message.want is stored as the
\* position and reported back with success: true
MoveTo(S, c, mobility, want) ==
    IF mobility = <<>> THEN [S |-> S, out |-> <<>>]
    ELSE Bind(SetPosition(S, S.clients[c].playerId, mobility[1], want), LAMBDA p :
           IF p.err # "none"
           THEN [S |-> p.S, out |-> <<MoveResult(FALSE, mobility[1].position)>>]
           ELSE [S |-> p.S, out |-> <<MoveResult(TRUE, want)>>,
                 bc |-> broadcastEntityUpdate(p.S, S.clients[c].playerId, DefaultChunk,
                                              "entity_update")])

\* handleMoveMessage; want is message.want
handleMoveMessage(S, c, want) ==
    Bind(ensurePlayer(S, c), LAMBDA e :
      IF e.err # "none"
      THEN [S |-> e.S, out |-> <<ErrorMessage("INVALID_MESSAGE")>>]
      ELSE MoveTo(e.S, c, getContract(e.S.st, e.S.clients[c].playerId, "mobility"),
                  want))

\* handleSubscribeChunks; chunkKeys is message.chunkKeys
RECURSIVE handleSubscribeChunks(_, _, _)
handleSubscribeChunks(S, c, chunkKeys) ==
    IF chunkKeys = <<>> THEN [S |-> S, out |-> <<>>]
    ELSE LET keyStr == ChunkUtils_toString(Head(chunkKeys))
         IN Bind(handleSubscribeChunks(
                     [S EXCEPT !.clients[c].subscribedChunks = @ \cup {keyStr},
                               !.subs = SubsAdd(S.subs, keyStr, c)],
                     c, Tail(chunkKeys)),
                 LAMBDA rest :
                   [S |-> rest.S,
                    out |-> <<sendChunkSnapshot(S.st, Head(chunkKeys))>> \o rest.out])

\* handleUnsubscribeChunks
RECURSIVE handleUnsubscribeChunks(_, _, _)
handleUnsubscribeChunks(S, c, chunkKeys) ==
    IF chunkKeys = <<>> THEN [S |-> S, out |-> <<>>]
    ELSE LET keyStr == ChunkUtils_toString(Head(chunkKeys))
         IN handleUnsubscribeChunks(
                [S EXCEPT !.clients[c].subscribedChunks = @ \ {keyStr},
                          !.subs = SubsRemove(S.subs, keyStr, c)],
                c, Tail(chunkKeys))

\* handleInteractMessage
handleInteractMessage(S, c) ==
    IF S.clients[c].playerId = ""
    THEN [S |-> S, out |-> <<ErrorMessage("NOT_AUTHENTICATED")>>]
    ELSE [S |-> S, out |-> <<ErrorMessage("NOT_IMPLEMENTED")>>]

NotOwnEntityMutant(client, entityId) == FALSE

\* message.entityId !== client.playerId ("" is undefined on either side)
NotOwnEntity(client, entityId) == entityId # client.playerId

\* handleAddContractMessage: no reply on success
handleAddContractMessage(S, c, entityId, contract) ==
    IF NotOwnEntity(S.clients[c], entityId)
    THEN [S |-> S, out |-> <<ErrorMessage("PERMISSION_DENIED")>>]
    ELSE Bind(addContract(S.st, DefaultLimits, entityId, contract), LAMBDA r :
           Bind(WithWorld(S, Hooked(WorldOf(S), r)), LAMBDA S1 :
             IF r.err # "none"
             THEN [S |-> S1, out |-> <<ErrorMessage("ADD_CONTRACT_FAILED")>>]
             ELSE [S |-> S1, out |-> <<>>,
                   bc |-> broadcastEntityUpdate(S1, entityId, DefaultChunk,
                                                "entity_update")]))

\* handleRemoveContractMessage: no reply on success
handleRemoveContractMessage(S, c, entityId, contractType) ==
    IF NotOwnEntity(S.clients[c], entityId)
    THEN [S |-> S, out |-> <<ErrorMessage("PERMISSION_DENIED")>>]
    ELSE Bind(removeContract(S.st, entityId, contractType), LAMBDA r :
           IF r.err # "none"
           THEN [S |-> S, out |-> <<ErrorMessage("CONTRACT_NOT_FOUND")>>]
           ELSE Bind(WithWorld(S, Hooked(WorldOf(S), r)), LAMBDA S1 :
                  [S |-> S1, out |-> <<>>,
                   bc |-> broadcastEntityUpdate(S1, entityId, DefaultChunk,
                                                "entity_update")]))

\* The 'connection' listener: a new ClientConnection, and hello_ok
handleConnection(S, c) ==
    [S |-> [S EXCEPT !.clients[c] = NewClient], out |-> <<[type |-> "hello_ok"]>>]

\* The 'close' listener (a close, or the heartbeat's terminate): if the maps
\* still hold the connection the player is removed, the subscriptions cleaned
\* up and the connection dropped from the maps; the socket is gone either way
handleClose(S, c) ==
    [S |-> [(IF ~S.clients[c].mapped THEN S
             ELSE cleanupClientSubscriptions(
                      IF S.clients[c].playerId = "" THEN S
                      ELSE WithWorld(S, removePlayer(WorldOf(S), S.clients[c].playerId)),
                      c))
              EXCEPT !.clients[c] = ClosedClient],
     out |-> <<>>]

\* The 'error' listener: the subscriptions are cleaned up and the connection
\* dropped from the maps; the player stays and the socket is still open
handleError(S, c) ==
    [S |-> IF ~S.clients[c].mapped THEN S
           ELSE [cleanupClientSubscriptions(S, c) EXCEPT !.clients[c].mapped = FALSE],
     out |-> <<>>]

(***************************************************************************)
(* The world after createApp(): the preloaded chunks, the test world of    *)
(* WorldState.initializeWorld (no saved world to load) and the             *)
(* world-default entity                                                    *)
(***************************************************************************)
\* createApp preloads the chunks (cx, 0, cz) with |cx|, |cz| <= radius = 2
PreloadRadius == 2

RECURSIVE LoadAll(_, _)
LoadAll(w, keys) ==
    IF keys = {} THEN w
    ELSE LET k == CHOOSE x \in keys : TRUE
         IN LoadAll(loadChunk(w, k), keys \ {k})

\* The terrain loop of createApp and of POST /dev/terrain/load
LoadSquare(w, layerId, cx, cz, radius) ==
    LoadAll(w, { ChunkUtils_create(layerId, x, 0, z) :
                    x \in (cx - radius)..(cx + radius),
                    z \in (cz - radius)..(cz + radius) })

\* The contracts WorldState.spawn builds from the block and item archetypes
ArchetypeContracts(archetypeId, entityId, position) ==
    IF archetypeId = "block"
    THEN << createIdentity(entityId), createMobility(position, NoNumber),
            createShape(Vec3(0 - Unit \div 2, 0 - Unit \div 2, 0 - Unit \div 2),
                        Vec3(Unit \div 2, Unit \div 2, Unit \div 2)),
            [type |-> "visual"], createSolidity(TRUE), createDurability(50, 50) >>
    ELSE << createIdentity(entityId), createMobility(position, NoNumber),
            createShape(Vec3(0 - (15 * Unit) \div 100, 0 - (15 * Unit) \div 100,
                             0 - (15 * Unit) \div 100),
                        Vec3((15 * Unit) \div 100, (15 * Unit) \div 100,
                             (15 * Unit) \div 100)),
            [type |-> "visual"], createPortable(1) >>

\* WorldState.spawn; entityId stands for `${archetypeId}-${Date.now()}-${random}`
spawn(wd, archetypeId, entityId, layerId, position) ==
    Bind(createEntity(wd.st, DefaultLimits, entityId,
                      ArchetypeContracts(archetypeId, entityId, position)),
         LAMBDA r :
           IF r.err # "none" THEN Hooked(wd, r)
           ELSE [Hooked(wd, r) EXCEPT !.ebl = LayerAdd(@, layerId, entityId)])

InitialTerrain ==
    LoadSquare([st |-> EmptyStore, cm |-> EmptyChunks, log |-> <<>>],
               "default", 0, 0, PreloadRadius)

\* The preloaded terrain, its block tracked by the layer hook and given durability
TerrainWorld(w) ==
    [st |-> RunDurabilityTimers(w.st, w.log), ebl |-> TrackLayers(<<>>, w.log), pc |-> 0]

\* ecs.addContract(pid, { ...mobility, position }) on the player addPlayer made
PlayerMovedTo(a, position) ==
    Hooked(a.wd, addContract(a.wd.st, DefaultLimits, a.id,
                             [getContract(a.wd.st, a.id, "mobility")[1]
                                 EXCEPT !.position = position]))

\* createTestWorld: a block, an item and the player VisualizerBot moved to (1,2,1)
createTestWorld(wd) ==
    PlayerMovedTo(
        addPlayer(spawn(spawn(wd, "block", "block-1", "default", Vec3(0, 0, 0)),
                        "item", "item-1", "default", Vec3(2 * Unit, Unit, 0)),
                  "default"),
        Vec3(Unit, 2 * Unit, Unit))

\* The world entity initializeWorld creates after the test world
WithWorldEntity(wd) ==
    Hooked(wd, createEntity(wd.st, DefaultLimits, "world-default",
                            << createIdentity("world-default"),
                               [type |-> "world_conditions"],
                               createWorldCommands(<<"login", "logout", "set_view",
                                                     "move_dir">>) >>))

InitialWorld == WithWorldEntity(createTestWorld(TerrainWorld(InitialTerrain)))

(***************************************************************************)
(* SpecStore: the ECSWorld API driven directly, as its unit tests drive it *)
(* (a bare ECSWorld with the default registry and no hooks registered).    *)
(***************************************************************************)
\* Largest number of contracts one entity holds in SpecStore
MaxContracts == 3

\* "e1" is driven with every input below, "e2" is a bystander with few
StoreIds == {"e1", "e2"}

StoreContracts(id) ==
    IF id = "e1"
    THEN { createPortable(1), createPortable(2),
           createContractLimit(<<[contractType |-> "portable", max |-> 1]>>),
           createDurability(5, 5), createDurability(5, 7), createDurability(5, 0 - 1) }
    ELSE { createPortable(1), createDurability(5, 5) }

StoreInitialLists(id) ==
    IF id = "e1"
    THEN { <<>>,
           <<createPortable(2), createDurability(5, 5)>>,
           <<createPortable(1), createDurability(5, 0 - 1)>> }
    ELSE { <<>>, <<createPortable(1)>> }

StoreTypes == {"portable", "contract_limit", "durability"}

StoreInit ==
    /\ entities = EmptyMap
    /\ contractIndex = EmptyMap
    /\ lastOp = [op |-> "init", id |-> "", type |-> "", err |-> "none"]
    /\ hookLog = <<>>
    /\ entitiesByLayer = <<>>
    /\ playerCounter = 0
    /\ chunks = EmptyMap
    /\ loadedChunks = {}
    /\ clients = EmptyMap
    /\ chunkSubscriptions = EmptyMap
    /\ sent = <<>>
    /\ broadcast = <<>>
    /\ lastCmd = [socket |-> "", type |-> "init", entityId |-> ""]
    /\ lastMove = NoMove
    /\ moves = 0

StoreApply(r, op, id, t) ==
    /\ entities' = r.st.entities
    /\ contractIndex' = r.st.contractIndex
    /\ lastOp' = [op |-> op, id |-> id, type |-> t, err |-> r.err]
    /\ hookLog' = r.log
    /\ UNCHANGED <<serverVars, moveVars>>

StoreCreateEntity ==
    \E id \in StoreIds : \E cs \in StoreInitialLists(id) :
        StoreApply(createEntity(Store, DefaultLimits, id, cs), "createEntity", id, "")

StoreAddContract ==
    \E id \in StoreIds : \E c \in StoreContracts(id) :
        LET r == addContract(Store, DefaultLimits, id, c)
        IN /\ hasEntity(r.st, id) => Len(r.st.entities[id]) <= MaxContracts
           /\ StoreApply(r, "addContract", id, c.type)

StoreRemoveContract ==
    \E id \in StoreIds, t \in StoreTypes :
        StoreApply(removeContract(Store, id, t), "removeContract", id, t)

StoreRemoveEntity ==
    \E id \in StoreIds :
        StoreApply(removeEntity(Store, id), "removeEntity", id, "")

StoreNext ==
    \/ StoreCreateEntity
    \/ StoreAddContract
    \/ StoreRemoveContract
    \/ StoreRemoveEntity

SpecStore == StoreInit /\ [][StoreNext]_vars

(***************************************************************************)
(* Spec: the running server in its event-driven mode.  Two sockets connect *)
(* and send messages; an operator loads terrain over HTTP.                  *)
(***************************************************************************)
\* playerCounter is capped: no player is created beyond this one
MaxPlayers == 2

\* move_dir is not sent when the player is this far (world units) from the axes
MaxCoord == 1

Sockets == {"c1", "c2"}

ServerState ==
    [st |-> Store, ebl |-> entitiesByLayer, pc |-> playerCounter,
     clients |-> clients, subs |-> chunkSubscriptions]

\* The messages the sockets send.  "c1" sends every kind with every argument
\* below; "c2" is a second session that logs in, subscribes and names entities
\* in add_contract and remove_contract
LoginLayers(c) == IF c = "c1" THEN {""} ELSE {"nether"}

\* message.want: the centre of the generated block of chunk (0,0,0)
MoveWants(c) == IF c = "c1" THEN { Vec3(16 * Unit, 0, 16 * Unit) } ELSE {}

MoveDirections(c) == IF c = "c1" THEN { <<"north", "east">> } ELSE {}

ViewRadii(c) == IF c = "c1" THEN {16 * Unit} ELSE {}

SubscribeKeys(c) == { <<ChunkUtils_create("default", 0, 0, 0)>> }

UnsubscribeKeys(c) ==
    IF c = "c1" THEN { <<ChunkUtils_create("default", 0, 0, 0)>> } ELSE {}

ClientContracts(c) ==
    IF c = "c1" THEN { createPortable(1), createCommandAccess(<<"login", "move">>) }
    ELSE { createPortable(1) }

ClientContractTypes(c) ==
    IF c = "c1" THEN {"portable", "mobility"} ELSE {"portable"}

\* The sockets whose transport reports an error before it closes
ErrorSockets == {"c2"}

\* add_contract is sent with a portable while the named entity holds fewer
MaxPortables == 1

\* POST /dev/terrain/load {cx, cz: 0, radius: 0} loads the chunk (cx, 0, 0)
LoadCenters == {4}

\* message.entityId: a session's player, the world entity, or absent ("")
NamedEntities == {clients[c].playerId : c \in Sockets} \cup {"world-default", ""}

\* One handler run for socket c: the server state, the messages and the record
Handled(c, type, entityId, h) ==
    /\ entities' = h.S.st.entities
    /\ contractIndex' = h.S.st.contractIndex
    /\ entitiesByLayer' = h.S.ebl
    /\ playerCounter' = h.S.pc
    /\ clients' = h.S.clients
    /\ chunkSubscriptions' = h.S.subs
    /\ sent' = h.out
    /\ broadcast' = Broadcasts(h)
    /\ lastCmd' = [socket |-> c, type |-> type, entityId |-> entityId]
    /\ UNCHANGED <<chunks, loadedChunks, lastOp, hookLog, moveVars>>

Init ==
    \E w \in {InitialWorld}, t \in {InitialTerrain} :
        /\ entities = w.st.entities
        /\ contractIndex = w.st.contractIndex
        /\ entitiesByLayer = w.ebl
        /\ playerCounter = w.pc
        /\ chunks = t.cm.chunks
        /\ loadedChunks = t.cm.loadedChunks
        /\ clients = [c \in Sockets |-> ClosedClient]
        /\ chunkSubscriptions = EmptyMap
        /\ sent = <<>>
        /\ broadcast = <<>>
        /\ lastCmd = [socket |-> "", type |-> "init", entityId |-> ""]
        /\ lastOp = [op |-> "init", id |-> "", type |-> "", err |-> "none"]
        /\ hookLog = <<>>
        /\ lastMove = NoMove
        /\ moves = 0

\* A message that would create a player is sent while the counter is below its cap
MayCreate(c) == clients[c].playerId # "" \/ playerCounter < MaxPlayers

\* A socket name stands for the client id of its connection, which is unique
\* (Date.now() and a random suffix): a name is taken again only when nothing
\* of the server holds the id of its former connection
Connect ==
    \E c \in Sockets :
        /\ ~clients[c].open
        /\ \A k \in DOMAIN chunkSubscriptions : c \notin chunkSubscriptions[k]
        /\ Handled(c, "connection", "", handleConnection(ServerState, c))

Close ==
    \E c \in Sockets :
        /\ clients[c].open
        /\ Handled(c, "close", "", handleClose(ServerState, c))

\* A transport error on an open socket; its 'close' follows later
TransportError ==
    \E c \in ErrorSockets :
        /\ clients[c].open
        /\ Handled(c, "error", "", handleError(ServerState, c))

Login ==
    \E c \in Sockets : \E layerId \in LoginLayers(c) :
        /\ clients[c].open /\ MayCreate(c)
        /\ Handled(c, "login", "", handleLoginMessage(ServerState, c, layerId))

Logout ==
    \E c \in Sockets :
        /\ clients[c].open
        /\ Handled(c, "logout", "", handleLogoutMessage(ServerState, c))

SetView ==
    \E c \in Sockets : \E radius \in ViewRadii(c) :
        /\ clients[c].open /\ MayCreate(c)
        /\ Handled(c, "set_view", "", handleSetViewMessage(ServerState, c, radius))

\* The player's position, or the origin for a session without one
PositionOf(c) ==
    LET mobility == getContract(Store, clients[c].playerId, "mobility")
    IN IF mobility = <<>> THEN Vec3(0, 0, 0) ELSE mobility[1].position

MoveDir ==
    \E c \in Sockets : \E directions \in MoveDirections(c) :
        /\ clients[c].open /\ MayCreate(c)
        /\ Abs(PositionOf(c).x) < MaxCoord * Unit
        /\ Abs(PositionOf(c).z) < MaxCoord * Unit
        /\ Handled(c, "move_dir", "", handleMoveDirMessage(ServerState, c, directions))

Move ==
    \E c \in Sockets : \E want \in MoveWants(c) :
        /\ clients[c].open /\ MayCreate(c)
        /\ Handled(c, "move", "", handleMoveMessage(ServerState, c, want))

SubscribeChunks ==
    \E c \in Sockets : \E chunkKeys \in SubscribeKeys(c) :
        /\ clients[c].open
        /\ Handled(c, "subscribe_chunks", "",
                   handleSubscribeChunks(ServerState, c, chunkKeys))

UnsubscribeChunks ==
    \E c \in Sockets : \E chunkKeys \in UnsubscribeKeys(c) :
        /\ clients[c].open
        /\ Handled(c, "unsubscribe_chunks", "",
                   handleUnsubscribeChunks(ServerState, c, chunkKeys))

Interact ==
    \E c \in Sockets :
        /\ clients[c].open
        /\ Handled(c, "interact", "", handleInteractMessage(ServerState, c))

AddContract ==
    \E c \in Sockets : \E entityId \in NamedEntities, contract \in ClientContracts(c) :
        /\ clients[c].open
        /\ contract.type = "portable" =>
               Len(OfType(getContracts(Store, entityId), "portable")) < MaxPortables
        /\ Handled(c, "add_contract", entityId,
                   handleAddContractMessage(ServerState, c, entityId, contract))

RemoveContract ==
    \E c \in Sockets : \E entityId \in NamedEntities, t \in ClientContractTypes(c) :
        /\ clients[c].open
        /\ Handled(c, "remove_contract", entityId,
                   handleRemoveContractMessage(ServerState, c, entityId, t))

\* The server after a terrain load: the hooks of the generated entities have run
TerrainLoaded(w) ==
    /\ entities' = RunDurabilityTimers(w.st, w.log).entities
    /\ contractIndex' = RunDurabilityTimers(w.st, w.log).contractIndex
    /\ entitiesByLayer' = TrackLayers(entitiesByLayer, w.log)
    /\ chunks' = w.cm.chunks
    /\ loadedChunks' = w.cm.loadedChunks
    /\ sent' = <<>>
    /\ broadcast' = <<>>
    /\ lastCmd' = [socket |-> "", type |-> "terrain_load", entityId |-> ""]
    /\ UNCHANGED <<playerCounter, clients, chunkSubscriptions, lastOp, hookLog, moveVars>>

\* POST /dev/terrain/load {cx, cz, radius}
TerrainLoad ==
    \E cx \in LoadCenters :
        TerrainLoaded(LoadSquare([st |-> Store,
                                  cm |-> [chunks |-> chunks,
                                          loadedChunks |-> loadedChunks],
                                  log |-> <<>>], "default", cx, 0, 0))

Next ==
    \/ Connect
    \/ Close
    \/ TransportError
    \/ Login
    \/ Logout
    \/ SetView
    \/ MoveDir
    \/ Move
    \/ SubscribeChunks
    \/ UnsubscribeChunks
    \/ Interact
    \/ AddContract
    \/ RemoveContract
    \/ TerrainLoad

Spec == Init /\ [][Next]_vars

(***************************************************************************)
(* SpecView: the server with the sessions' view commands only, every       *)
(* session sending set_view with radii from 0 to a whole chunk.            *)
(***************************************************************************)
\* message.radius: 0, half a chunk, a chunk
WideViewRadii == {0, 16 * Unit, 32 * Unit}

SetViewWide ==
    \E c \in Sockets : \E radius \in WideViewRadii :
        /\ clients[c].open /\ MayCreate(c)
        /\ Handled(c, "set_view", "", handleSetViewMessage(ServerState, c, radius))

ViewNext ==
    \/ Connect
    \/ Close
    \/ Login
    \/ Logout
    \/ SetViewWide
    \/ MoveDir

SpecView == Init /\ [][ViewNext]_vars

(***************************************************************************)
(* SpecDamage: the durability system damaging the entities of the running  *)
(* server while sessions subscribe to the chunk of the generated block.    *)
(***************************************************************************)
\* The entities damaged: the block generateChunkContent made (a member of chunk
\* default:0,0,0, durability 1/1), the test block (50/50) and the test item
DamageTargets == {GeneratedBlockId(DefaultChunk), "block-1", "item-1"}

DamageAmounts == {0, 1, 25}

\* The server after durabilitySystem.damage(id, amount) returned r: the layer
\* hook has run, no chunk record is touched and no message is sent
Damaged(id, amount, r, wd) ==
    /\ entities' = wd.st.entities
    /\ contractIndex' = wd.st.contractIndex
    /\ entitiesByLayer' = wd.ebl
    /\ sent' = <<>>
    /\ broadcast' = <<>>
    /\ lastCmd' = [socket |-> "", type |-> "damage", entityId |-> id]
    /\ lastOp' = [op |-> "damage", id |-> id, type |-> ToString(amount),
                  err |-> IF r.ok THEN "none" ELSE "false"]
    /\ UNCHANGED <<playerCounter, chunks, loadedChunks, clients, chunkSubscriptions,
                   hookLog, moveVars>>

Damage ==
    \E id \in DamageTargets : \E amount \in DamageAmounts :
        Damaged(id, amount, damage(Store, id, amount),
                Hooked([st |-> Store, ebl |-> entitiesByLayer, pc |-> playerCounter],
                       damage(Store, id, amount)))

DamageNext ==
    \/ Connect
    \/ Close
    \/ SubscribeChunks
    \/ UnsubscribeChunks
    \/ Damage

SpecDamage == Init /\ [][DamageNext]_vars

(***************************************************************************)
(* SpecChunk: the ChunkManager API driven directly on a new manager:        *)
(* sockets subscribe to chunks, entities are added to and removed from      *)
(* chunks, voxels are set and chunks are loaded.                            *)
(***************************************************************************)
\* No chunk is changed beyond this version
MaxVersion == 4

\* (0,0,0) is a chunk generateChunkContent puts a block in, (1,0,0) is not
DrivenChunks == {ChunkUtils_create("default", 0, 0, 0), ChunkUtils_create("default", 1, 0, 0)}

DrivenMembers == {"a", "b"}

\* Grid cells: one inside the grid and one outside it
DrivenCells == {<<0, 0, 0>>, <<SolidGridResolution, 0, 0>>}

ChunkInit ==
    /\ entities = EmptyMap
    /\ contractIndex = EmptyMap
    /\ lastOp = [op |-> "init", id |-> "", type |-> "", err |-> "none"]
    /\ hookLog = <<>>
    /\ entitiesByLayer = <<>>
    /\ playerCounter = 0
    /\ chunks = EmptyMap
    /\ loadedChunks = {}
    /\ clients = EmptyMap
    /\ chunkSubscriptions = EmptyMap
    /\ sent = <<>>
    /\ broadcast = <<>>
    /\ lastCmd = [socket |-> "", type |-> "init", entityId |-> ""]
    /\ lastMove = NoMove
    /\ moves = 0

Manager == [chunks |-> chunks, loadedChunks |-> loadedChunks]

VersionOf(cm, chunkKey) ==
    IF ChunkUtils_toString(chunkKey) \in DOMAIN cm.chunks
    THEN cm.chunks[ChunkUtils_toString(chunkKey)].version ELSE 1

\* The manager after a call, what the call sent to its caller's socket (out)
\* and what it sent to the subscribers (bc)
Managed(type, ws, st, cm, out, bc) ==
    /\ entities' = st.entities
    /\ contractIndex' = st.contractIndex
    /\ chunks' = cm.chunks
    /\ loadedChunks' = cm.loadedChunks
    /\ sent' = out
    /\ broadcast' = bc
    /\ lastCmd' = [socket |-> ws, type |-> type, entityId |-> ""]
    /\ UNCHANGED <<entitiesByLayer, playerCounter, clients, chunkSubscriptions,
                   lastOp, hookLog, moveVars>>

\* A socket subscribes to a chunk it is not yet a subscriber of
ChunkSubscribe ==
    \E ws \in Sockets, key \in DrivenChunks :
        /\ ChunkUtils_toString(key) \in DOMAIN chunks =>
               ws \notin Range(chunks[ChunkUtils_toString(key)].subscriptions)
        /\ Managed("subscribe", ws, Store, subscribe(Manager, ws, key).cm,
                   subscribe(Manager, ws, key).out, <<>>)

ChunkAddEntity ==
    \E id \in DrivenMembers, key \in DrivenChunks :
        /\ VersionOf(Manager, key) < MaxVersion
        /\ Bind(addEntityToChunk(Manager, id, key), LAMBDA r :
             Managed("addEntityToChunk", "", Store, r.cm, <<>>, r.bc))

ChunkRemoveEntity ==
    \E id \in DrivenMembers, key \in DrivenChunks :
        /\ VersionOf(Manager, key) < MaxVersion
        /\ Bind(removeEntityFromChunk(Manager, id, key), LAMBDA r :
             Managed("removeEntityFromChunk", "", Store, r.cm, <<>>, r.bc))

\* setSolid(chunk, x, y, z, true) on a record of the manager
ChunkSetSolid ==
    \E key \in DrivenChunks, cell \in DrivenCells :
        /\ ChunkUtils_toString(key) \in DOMAIN chunks
        /\ VersionOf(Manager, key) < MaxVersion
        /\ Managed("setSolid", "", Store,
                   [Manager EXCEPT !.chunks[ChunkUtils_toString(key)] =
                                       setSolid(@, cell[1], cell[2], cell[3])],
                   <<>>, <<>>)

ChunkLoad ==
    \E key \in DrivenChunks :
        /\ VersionOf(Manager, key) < MaxVersion - 1
        /\ Bind(loadChunk([st |-> Store, cm |-> Manager, log |-> <<>>], key), LAMBDA w :
             Managed("loadChunk", "", w.st, w.cm, <<>>, <<>>))

ChunkNext ==
    \/ ChunkSubscribe
    \/ ChunkAddEntity
    \/ ChunkRemoveEntity
    \/ ChunkSetSolid
    \/ ChunkLoad

SpecChunk == ChunkInit /\ [][ChunkNext]_vars

(***************************************************************************)
(* SpecSave: saveWorld and loadWorld (the admin endpoints) on the running   *)
(* server, with logins and logouts between them.  A world document holds    *)
(* the entities [id, layerId, contracts] and metadata.playerCounter; the    *)
(* store keeps no order of its entities, so the document lists them as a    *)
(* set.  The server starts with the test world, or from an existing         *)
(* document that holds no player yet.                                       *)
(***************************************************************************)
\* saveWorld's layer of an entity: the first layer that tracks it, else 'default'
SavedLayer(ebl, entityId) ==
    IF \E i \in 1..Len(ebl) : entityId \in Range(ebl[i].members)
    THEN ebl[CHOOSE i \in 1..Len(ebl) :
                /\ entityId \in Range(ebl[i].members)
                /\ \A j \in 1..(i - 1) : entityId \notin Range(ebl[j].members)].layer
    ELSE "default"

\* saveWorld: the document written
saveWorld(wd) ==
    [entities |-> { [id |-> id, layerId |-> SavedLayer(wd.ebl, id),
                     contracts |-> getContracts(wd.st, id)] : id \in DOMAIN wd.st.entities },
     playerCounter |-> wd.pc]

\* ecsWorld.clear(): every entity removed, with its hooks
RECURSIVE clear(_)
clear(wd) ==
    IF DOMAIN wd.st.entities = {} THEN wd
    ELSE clear(Hooked(wd, removeEntity(wd.st, CHOOSE id \in DOMAIN wd.st.entities : TRUE)))

\* The 'Restore entities' loop of loadWorld: createEntity and the layer
\* tracking, an entity whose createEntity throws being skipped
RECURSIVE RestoreEntities(_, _)
RestoreEntities(wd, saved) ==
    IF saved = {} THEN wd
    ELSE LET entityData == CHOOSE e \in saved : TRUE
         IN Bind(createEntity(wd.st, DefaultLimits, entityData.id, entityData.contracts),
                 LAMBDA r :
                   RestoreEntities(
                       IF r.err # "none" THEN Hooked(wd, r)
                       ELSE [Hooked(wd, r) EXCEPT
                                !.ebl = LayerAdd(@, entityData.layerId, entityData.id)],
                       saved \ {entityData}))

\* loadWorld: the world afterwards; if (worldData.metadata?.playerCounter)
\* guards the counter
loadWorld(wd, worldData) ==
    Bind(RestoreEntities([clear(wd) EXCEPT !.ebl = <<>>], worldData.entities),
         LAMBDA restored :
           [restored EXCEPT !.pc = IF worldData.playerCounter # 0
                                   THEN worldData.playerCounter ELSE wd.pc])

\* A document of a world without players: one block, playerCounter 0
SeedDocument ==
    [entities |-> { [id |-> "block-1", layerId |-> "default",
                     contracts |-> ArchetypeContracts("block", "block-1", Vec3(0, 0, 0))] },
     playerCounter |-> 0]

\* initializeWorld: the test world when loadWorld fails, the loaded document
\* when a data file exists
StartWorlds == {InitialWorld, loadWorld(TerrainWorld(InitialTerrain), SeedDocument)}

SaveInit ==
    \E w \in StartWorlds, t \in {InitialTerrain} :
        /\ entities = w.st.entities
        /\ contractIndex = w.st.contractIndex
        /\ entitiesByLayer = w.ebl
        /\ playerCounter = w.pc
        /\ chunks = t.cm.chunks
        /\ loadedChunks = t.cm.loadedChunks
        /\ clients = [c \in Sockets |-> ClosedClient]
        /\ chunkSubscriptions = EmptyMap
        /\ sent = <<>>
        /\ broadcast = <<>>
        /\ lastCmd = [socket |-> "", type |-> "init", entityId |-> ""]
        /\ lastOp = [op |-> "init", worldData |-> <<>>]
        /\ hookLog = <<>>
        /\ lastMove = NoMove
        /\ moves = 0

CurrentWorld == [st |-> Store, ebl |-> entitiesByLayer, pc |-> playerCounter]

\* POST save: the document is kept
SaveWorld ==
    /\ lastOp' = [op |-> "save", worldData |-> <<saveWorld(CurrentWorld)>>]
    /\ lastCmd' = [socket |-> "", type |-> "save", entityId |-> ""]
    /\ UNCHANGED <<entities, contractIndex, entitiesByLayer, playerCounter, chunks,
                   loadedChunks, clients, chunkSubscriptions, sent, broadcast,
                   hookLog, moveVars>>

Loaded(wd) ==
    /\ entities' = wd.st.entities
    /\ contractIndex' = wd.st.contractIndex
    /\ entitiesByLayer' = wd.ebl
    /\ playerCounter' = wd.pc
    /\ lastOp' = [lastOp EXCEPT !.op = "load"]
    /\ lastCmd' = [socket |-> "", type |-> "load", entityId |-> ""]
    /\ UNCHANGED <<chunks, loadedChunks, clients, chunkSubscriptions, sent, broadcast,
                   hookLog, moveVars>>

\* POST load of the document saved last
LoadWorld ==
    /\ lastOp.worldData # <<>>
    /\ Loaded(loadWorld(CurrentWorld, lastOp.worldData[1]))

SaveNext ==
    \/ Connect
    \/ Close
    \/ Login
    \/ Logout
    \/ SaveWorld
    \/ LoadWorld

SpecSave == SaveInit /\ [][SaveNext]_vars

(***************************************************************************)
(* SpecHealth: damage, heal and repair called on one entity whose          *)
(* durability starts within its bounds.  Health is counted in hundredths   *)
(* of a point here, so that the armor reduction (1% a point) is exact.     *)
(***************************************************************************)
HealthScale == 100

\* Largest maxHealth of the entity, in points
MaxHealthBound == 3

\* armor: absent, none, 50% and above the cap of 75%
Armors == {NoNumber, 0, 50, 90}

\* The amounts of the calls in points: negative, zero, small, beyond every health
HealthAmounts == {0 - 5, 0, 1, 2, 100}

HealthInit ==
    \E maxHealth \in 1..MaxHealthBound : \E health \in 0..maxHealth, armor \in Armors :
        /\ entities = createEntity(EmptyStore, DefaultLimits, "target",
                          << createIdentity("target"),
                             [createDurability(maxHealth * HealthScale,
                                               health * HealthScale)
                                 EXCEPT !.armor = armor] >>).st.entities
        /\ contractIndex = createEntity(EmptyStore, DefaultLimits, "target",
                          << createIdentity("target"),
                             [createDurability(maxHealth * HealthScale,
                                               health * HealthScale)
                                 EXCEPT !.armor = armor] >>).st.contractIndex
        /\ lastOp = [op |-> "init", id |-> "", type |-> "", err |-> "none"]
        /\ hookLog = <<>>
        /\ entitiesByLayer = <<>>
        /\ playerCounter = 0
        /\ chunks = EmptyMap
        /\ loadedChunks = {}
        /\ clients = EmptyMap
        /\ chunkSubscriptions = EmptyMap
        /\ sent = <<>>
        /\ broadcast = <<>>
        /\ lastCmd = [socket |-> "", type |-> "init", entityId |-> ""]
        /\ lastMove = NoMove
        /\ moves = 0

\* The store after a call of the durability system that returned r, and the
\* record of the call with the durability the entity had before it
HealthCalled(op, amount, r) ==
    /\ entities' = r.st.entities
    /\ contractIndex' = r.st.contractIndex
    /\ hookLog' = r.log
    /\ lastOp' = [op |-> op, id |-> "target", amount |-> amount, ok |-> r.ok,
                  before |-> getContract(Store, "target", "durability")]
    /\ UNCHANGED <<serverVars, moveVars>>

DamageCall ==
    \E amount \in HealthAmounts :
        HealthCalled("damage", amount * HealthScale,
                     damage(Store, "target", amount * HealthScale))

HealCall ==
    \E amount \in HealthAmounts :
        HealthCalled("heal", amount * HealthScale,
                     heal(Store, "target", amount * HealthScale))

RepairCall == HealthCalled("repair", 0, repair(Store, "target"))

HealthNext ==
    \/ DamageCall
    \/ HealCall
    \/ RepairCall

SpecHealth == HealthInit /\ [][HealthNext]_vars

(***************************************************************************)
(* SpecGrid: getIntersectingChunks applied to boxes, one call a behaviour. *)
(***************************************************************************)
\* The coordinates of the box corners on the horizontal axes and on the y axis
GridValues == {0 - 40 * Unit, 0 - 5 * Unit, 0, 5 * Unit, 32 * Unit, 64 * Unit}

GridHeights == {0 - 10 * Unit, 0, 10 * Unit, 256 * Unit, 300 * Unit}

\* The boxes with min < max on every axis
GridBoxes ==
    { [min |-> Vec3(x1, y1, z1), max |-> Vec3(x2, y2, z2)] :
        x1 \in GridValues, x2 \in GridValues, y1 \in GridHeights, y2 \in GridHeights,
        z1 \in {0 - 5 * Unit, 0, 32 * Unit}, z2 \in {5 * Unit, 32 * Unit, 64 * Unit} }

\* getIntersectingChunks('test', bounds)
Intersecting ==
    \E bounds \in GridBoxes :
        /\ lastOp.op = "init"
        /\ bounds.min.x < bounds.max.x /\ bounds.min.y < bounds.max.y
        /\ bounds.min.z < bounds.max.z
        /\ lastOp' = [op |-> "getIntersectingChunks", bounds |-> bounds,
                      chunks |-> getIntersectingChunks("test", bounds, CHUNK_SIZE)]
        /\ UNCHANGED <<entities, contractIndex, hookLog, serverVars, moveVars>>

GridNext == Intersecting

SpecGrid == StoreInit /\ [][GridNext]_vars

(***************************************************************************)
(* SpecKey: ChunkUtils.toString and ChunkUtils.fromString applied to keys  *)
(* and to texts, one call a behaviour; lastOp records the call and what it *)
(* returned.                                                               *)
(***************************************************************************)
\* Layer ids: empty, plain, with a colon, with a minus sign
KeyLayers == { <<>>, <<"a">>, <<"a", "b">>, <<"a", ":", "b">>, <<"t", "-", "1">> }

KeyCoords == {0 - 12, 0 - 1, 0, 7, 10}

\* The texts between the separators: integers as toString writes them, and others
NumberTexts ==
    { <<"0">>, <<"1", "2">>, <<"-", "3">>, <<"0", "1">>, <<"-", "0">>, <<"-">>, <<>>,
      <<"1", "a">>, <<"+", "1">> }

\* The texts given to fromString
KeyTexts ==
    { l \o <<":">> \o a \o <<",">> \o b \o <<",">> \o c :
        l \in KeyLayers, a \in NumberTexts, b \in NumberTexts, c \in NumberTexts }
    \cup { <<>>, <<"i", "n", "v", "a", "l", "i", "d">>,
            <<"l", ":", "i", ",", "c">>, <<"a", ":", "1", ",", "2">>,
            <<"a", ":", "1", ",", "2", ",", "3", ",", "4">> }

KeyInit == StoreInit

\* ChunkUtils.fromString(ChunkUtils.toString(key))
KeyRoundTrip ==
    \E l \in KeyLayers : \E cx \in KeyCoords, cy \in KeyCoords, cz \in KeyCoords :
        /\ lastOp.op = "init"
        /\ lastOp' = [op |-> "toString", key |-> ChunkUtils_create(l, cx, cy, cz),
                      str |-> toStringChars(ChunkUtils_create(l, cx, cy, cz)),
                      parsed |-> ChunkUtils_fromString(
                                     toStringChars(ChunkUtils_create(l, cx, cy, cz)))]
        /\ UNCHANGED <<entities, contractIndex, hookLog, serverVars, moveVars>>

\* ChunkUtils.fromString(str)
KeyParse ==
    \E str \in KeyTexts :
        /\ lastOp.op = "init"
        /\ lastOp' = [op |-> "fromString", key |-> <<>>, str |-> str,
                      parsed |-> ChunkUtils_fromString(str)]
        /\ UNCHANGED <<entities, contractIndex, hookLog, serverVars, moveVars>>

KeyNext ==
    \/ KeyRoundTrip
    \/ KeyParse

SpecKey == KeyInit /\ [][KeyNext]_vars

(***************************************************************************)
(* SpecMove: the movement system driven directly, as collision.test.ts     *)
(* drives it, over a store of test entities and a chunk manager whose      *)
(* chunk (0,0,0) is loaded.                                                *)
(***************************************************************************)
\* moveEntity is called at most this many times
MaxMoves == 1

\* A box of the half extent around the origin
BoxShape(half) == createShape(Vec3(0 - half, 0 - half, 0 - half), Vec3(half, half, half))

\* The entities of the movement tests: two movers (one without maxSpeed), a
\* solid and a non-solid obstacle on the x axis, an entity without shape, one
\* without mobility, a mover beside the solid cell of the loaded chunk, and a
\* mover whose box touches the face of a solid block next to it, and a solid
\* post that the mover beside the solid cell enters halfway along its path
MoveEntities ==
    << [id |-> "mover", contracts |->
          << createMobility(Vec3(0, 0, 0), NoNumber), BoxShape(Unit \div 2) >>],
       [id |-> "slow", contracts |->
          << createMobility(Vec3(0, 0, 3 * Unit), 2), BoxShape(Unit \div 10) >>],
       [id |-> "wall", contracts |->
          << createMobility(Vec3(2 * Unit, 0, 0), NoNumber), BoxShape(Unit \div 2),
             createSolidity(TRUE) >>],
       [id |-> "curtain", contracts |->
          << createMobility(Vec3(2 * Unit, 0, 3 * Unit), NoNumber),
             BoxShape(Unit \div 2), createSolidity(FALSE) >>],
       [id |-> "shapeless", contracts |->
          << createMobility(Vec3(0, 0, 6 * Unit), NoNumber) >>],
       [id |-> "ghost", contracts |-> << BoxShape(Unit \div 2) >>],
       [id |-> "climber", contracts |->
          << createMobility(Vec3(15 * Unit, 130 * Unit, 17 * Unit), NoNumber),
             BoxShape(Unit \div 10) >>],
       [id |-> "pusher", contracts |->
          << createMobility(Vec3(0, 0, 9 * Unit), NoNumber), BoxShape(Unit \div 2) >>],
       [id |-> "pillar", contracts |->
          << createMobility(Vec3(Unit, 0, 9 * Unit), NoNumber), BoxShape(Unit \div 2),
             createSolidity(TRUE) >>],
       [id |-> "post", contracts |->
          << createMobility(Vec3((33 * Unit) \div 2, 130 * Unit, 17 * Unit), NoNumber),
             BoxShape((2 * Unit) \div 5), createSolidity(TRUE) >>] >>

MoveIds == {"mover", "slow", "shapeless", "ghost", "climber", "pusher"}

\* want / targetPosition, by entity
MoveTargets(id) ==
    IF id = "climber"
    THEN { Vec3(17 * Unit, 130 * Unit, 17 * Unit), Vec3(15 * Unit, 130 * Unit, 17 * Unit) }
    ELSE IF id = "slow"
    THEN { Vec3(3 * Unit, 0, 3 * Unit), Vec3(0, 0, 3 * Unit) }
    ELSE IF id = "shapeless"
    THEN { Vec3(3 * Unit, 0, 6 * Unit), Vec3(0, 0, 6 * Unit) }
    ELSE IF id = "pusher"
    THEN { Vec3(3 * Unit, 0, 9 * Unit) }
    ELSE { Vec3(3 * Unit, 0, 0), Vec3(3 * Unit, Unit, 0), Vec3(0, 0, 0) }

\* deltaTime in milliseconds
DeltaTimes == {0, 100, 500, 1000}

RECURSIVE CreateAll(_, _)
CreateAll(st, es) ==
    IF es = <<>> THEN st
    ELSE CreateAll(createEntity(st, DefaultLimits, Head(es).id, Head(es).contracts).st,
                   Tail(es))

MoveWorld ==
    Bind(loadChunk([st |-> EmptyStore, cm |-> EmptyChunks, log |-> <<>>],
                   ChunkUtils_create("default", 0, 0, 0)),
         LAMBDA w : [st |-> CreateAll(w.st, MoveEntities), cm |-> w.cm])

MoveInit ==
    \E w \in {MoveWorld} :
        /\ entities = w.st.entities
        /\ contractIndex = w.st.contractIndex
        /\ chunks = w.cm.chunks
        /\ loadedChunks = w.cm.loadedChunks
        /\ lastMove = NoMove
        /\ moves = 0
        /\ entitiesByLayer = <<>>
        /\ playerCounter = 0
        /\ clients = EmptyMap
        /\ chunkSubscriptions = EmptyMap
        /\ sent = <<>>
        /\ broadcast = <<>>
        /\ lastCmd = [socket |-> "", type |-> "init", entityId |-> ""]
        /\ lastOp = [op |-> "init", id |-> "", type |-> "", err |-> "none"]
        /\ hookLog = <<>>

MoveWorldNow == [st |-> Store, cm |-> [chunks |-> chunks, loadedChunks |-> loadedChunks]]

\* The record of a movement call: the mobility and shape the entity had before it
MoveCalled(op, id, want, deltaTime, result) ==
    /\ lastMove' = [op |-> op, entityId |-> id, want |-> want, deltaTime |-> deltaTime,
                    mobility |-> getContract(Store, id, "mobility"),
                    shape |-> getContract(Store, id, "shape"),
                    ok |-> result.ok, position |-> result.position,
                    blockedReason |-> result.blockedReason,
                    collisionNormal |-> result.collisionNormal]
    /\ chunks' = result.cm.chunks
    /\ loadedChunks' = result.cm.loadedChunks
    /\ UNCHANGED <<entitiesByLayer, playerCounter, clients, chunkSubscriptions, sent, broadcast,
                   lastCmd, lastOp, hookLog>>

MoveAttempt ==
    \E id \in MoveIds : \E want \in MoveTargets(id), deltaTime \in DeltaTimes :
        /\ MoveCalled("attemptMove", id, want, deltaTime,
                      attemptMove(MoveWorldNow, id, want, deltaTime))
        /\ UNCHANGED <<entities, contractIndex, moves>>

\* moveEntity: the store after its addContract
MoveStored(id, targetPosition, deltaTime, m) ==
    /\ MoveCalled("moveEntity", id, targetPosition, deltaTime, m.result)
    /\ entities' = m.r.st.entities
    /\ contractIndex' = m.r.st.contractIndex
    /\ moves' = moves + 1

MoveEntity ==
    \E id \in MoveIds : \E targetPosition \in MoveTargets(id), deltaTime \in DeltaTimes :
        /\ moves < MaxMoves
        /\ MoveStored(id, targetPosition, deltaTime,
                      moveEntity(MoveWorldNow, id, targetPosition, deltaTime))

MoveNext ==
    \/ MoveAttempt
    \/ MoveEntity

SpecMove == MoveInit /\ [][MoveNext]_vars

(***************************************************************************)
(* SpecTeleport: teleport called on the entities of the movement tests.     *)
(***************************************************************************)
\* teleport is called at most this many times
MaxTeleports == 2

\* Destinations.  Of the mover beside the solid cell of the loaded chunk: a
\* place inside the cell, the place of the solid post, a free place and a free
\* place a step away.  Of the others: the place of the solid wall, two free
\* places and a free place a step away from the start of 'mover'
TeleportTargets(id) ==
    IF id = "climber"
    THEN { Vec3(17 * Unit, 136 * Unit, 17 * Unit),
           Vec3((33 * Unit) \div 2, 130 * Unit, 17 * Unit),
           Vec3(15 * Unit, 130 * Unit, 20 * Unit),
           Vec3(15 * Unit + Unit \div 20, 130 * Unit, 17 * Unit) }
    ELSE { Vec3(2 * Unit, 0, 0), Vec3(5 * Unit, 0, 0), Vec3(0 - 3 * Unit, 0, 6 * Unit),
           Vec3(Unit \div 20, 0, 0) }

\* The record of a teleport call, with the mobility and shape before it
TeleportCalled(id, position, r) ==
    /\ lastMove' = [op |-> "teleport", entityId |-> id, want |-> position,
                    mobility |-> getContract(Store, id, "mobility"),
                    shape |-> getContract(Store, id, "shape"), ok |-> r.ok]
    /\ entities' = r.st.entities
    /\ contractIndex' = r.st.contractIndex
    /\ chunks' = r.cm.chunks
    /\ loadedChunks' = r.cm.loadedChunks
    /\ moves' = moves + 1
    /\ UNCHANGED <<entitiesByLayer, playerCounter, clients, chunkSubscriptions, sent,
                   broadcast, lastCmd, lastOp, hookLog>>

Teleport ==
    \E id \in MoveIds : \E position \in TeleportTargets(id) :
        /\ moves < MaxTeleports
        /\ TeleportCalled(id, position, teleport(MoveWorldNow, id, position))

TeleportNext == Teleport

SpecTeleport == MoveInit /\ [][TeleportNext]_vars

(***************************************************************************)
(* Claims                                                                  *)
(***************************************************************************)

\* C1: after any sequence of createEntity, addContract, removeContract and
\* removeEntity calls, getContract(E, K) returns a component if and only if E is
\* listed by getEntitiesWithContract(K), for every entity E and kind K.
C1_IndexMatchesStore ==
    \A id \in StoreIds : \A t \in StoreTypes :
        hasContract(Store, id, t) <=> id \in Range(getEntitiesWithContract(Store, t))

\* C2: after every addContract call, an entity whose contract_limit sets kind K
\* to N holds at most N components of kind K.
C2_LimitBoundsCount ==
    (lastOp.op = "addContract" /\ lastOp.err = "none") =>
        \A id \in DOMAIN entities :
            LET limitContract == getContract(Store, id, "contract_limit")
            IN limitContract # <<>> =>
                \A i \in 1..Len(limitContract[1].limits) :
                    Len(OfType(entities[id], limitContract[1].limits[i].contractType))
                        <= limitContract[1].limits[i].max

\* C5: every durability component readable from the store via getContract
\* satisfies 0 <= health <= maxHealth (addContract and createEntity reject the
\* others).
C5_HealthWithinMax ==
    \A id \in DOMAIN entities :
        LET d == getContract(Store, id, "durability")
        IN d # <<>> => (0 <= d[1].health /\ d[1].health <= d[1].maxHealth)

\* The key strings of the chunk records that list the entity
ChunksListing(id) == {k \in DOMAIN chunks : id \in Range(chunks[k].entities)}

\* C3: every entity with a mobility component is a member of exactly one chunk,
\* the chunk world_to_chunk gives for its current position, and an entity that
\* is not in the store or has no mobility is a member of no chunk.
C3_MemberOfOwnChunk ==
    /\ \A id \in DOMAIN entities :
          LET mobility == getContract(Store, id, "mobility")
          IN IF mobility = <<>> THEN ChunksListing(id) = {}
             ELSE \E k \in DOMAIN chunks :
                     /\ ChunksListing(id) = {k}
                     /\ [cx |-> chunks[k].key.cx, cy |-> chunks[k].key.cy,
                         cz |-> chunks[k].key.cz]
                          = worldToChunk(mobility[1].position, CHUNK_SIZE)
    /\ \A k \in DOMAIN chunks : Range(chunks[k].entities) \subseteq DOMAIN entities

\* The message is a snapshot of the chunk with this key
IsSnapshotOf(m, chunkKey) == m.type = "chunk_snapshot" /\ m.chunkKey = chunkKey

\* C4: for each chunk and session, the versions of the successive snapshots sent
\* to the session for the chunk are strictly increasing in the order sent; stated
\* for the snapshots of two handler runs in a row on one connection.
C4_VersionsIncrease ==
    [][ (lastCmd'.socket = lastCmd.socket /\ lastCmd'.type # "connection") =>
          \A i \in 1..Len(sent), j \in 1..Len(sent') :
              (sent[i].type = "chunk_snapshot" /\ IsSnapshotOf(sent'[j], sent[i].chunkKey))
                  => sent'[j].version > sent[i].version ]_vars

\* The point lies strictly inside the box of a solid entity other than self
InsideSolid(p, self) ==
    \E id \in DOMAIN entities \ {self} :
        LET solidity == getContract(Store, id, "solidity")
            mobility == getContract(Store, id, "mobility")
            shape == getContract(Store, id, "shape")
        IN /\ solidity # <<>> /\ mobility # <<>> /\ shape # <<>>
           /\ solidity[1].solid
           /\ mobility[1].position.x + shape[1].bounds.min.x < p.x
           /\ p.x < mobility[1].position.x + shape[1].bounds.max.x
           /\ mobility[1].position.y + shape[1].bounds.min.y < p.y
           /\ p.y < mobility[1].position.y + shape[1].bounds.max.y
           /\ mobility[1].position.z + shape[1].bounds.min.z < p.z
           /\ p.z < mobility[1].position.z + shape[1].bounds.max.z

\* C7: after a session's move(want), the position reported in move_result and
\* stored for its player is never inside a solid entity.
C7_MoveStaysOutOfSolids ==
    lastCmd.type = "move" =>
        \A i \in 1..Len(sent) :
            sent[i].type = "move_result" =>
                /\ ~InsideSolid(sent[i].position, clients[lastCmd.socket].playerId)
                /\ LET mobility == getContract(Store, clients[lastCmd.socket].playerId,
                                               "mobility")
                   IN mobility # <<>> =>
                          ~InsideSolid(mobility[1].position,
                                       clients[lastCmd.socket].playerId)

\* The inbound command types
CommandTypes ==
    {"login", "logout", "set_view", "move", "move_dir", "subscribe_chunks",
     "unsubscribe_chunks", "add_contract", "remove_contract", "interact"}

\* A world_commands component exists and does not list the command, or the
\* session's player is bound and its command_access does not list it
NotListed(c, command) ==
    \/ \E id \in DOMAIN entities :
          /\ getContract(Store, id, "world_commands") # <<>>
          /\ command \notin Range(getContract(Store, id, "world_commands")[1].commands)
    \/ /\ clients[c].playerId # ""
       /\ getContract(Store, clients[c].playerId, "command_access") # <<>>
       /\ command \notin
            Range(getContract(Store, clients[c].playerId, "command_access")[1].allowed)

\* C8: a command of any inbound type that world_commands or the bound player's
\* command_access does not list is answered with FORBIDDEN and changes no
\* entity, no subscription and no session field.
C8_UnlistedCommandForbidden ==
    [][ \A c \in Sockets :
          (lastCmd'.socket = c /\ lastCmd'.type \in CommandTypes
             /\ NotListed(c, lastCmd'.type)) =>
              /\ ErrorMessage("FORBIDDEN") \in Range(sent')
              /\ UNCHANGED <<entities, contractIndex, chunkSubscriptions, clients>> ]_vars

\* C9: a command other than login from a session with no bound player creates no
\* player entity, binds no player and adds no subscription.
C9_UnboundOnlyLogsIn ==
    [][ \A c \in Sockets :
          (lastCmd'.socket = c /\ lastCmd'.type \in CommandTypes \ {"login"}
             /\ clients[c].playerId = "") =>
              /\ UNCHANGED <<entities, contractIndex, playerCounter>>
              /\ clients'[c].playerId = ""
              /\ clients'[c].subscribedChunks \subseteq clients[c].subscribedChunks
              /\ \A k \in DOMAIN chunkSubscriptions' :
                    c \in chunkSubscriptions'[k] =>
                        (k \in DOMAIN chunkSubscriptions /\ c \in chunkSubscriptions[k])
      ]_vars

\* C10: an add_contract or remove_contract message changes the components of no
\* entity other than the player bound to the sending session, and one that names
\* another entity, or is sent with no bound player, leaves the store unchanged
\* and is answered with an error.
C10_ContractsOfOwnPlayerOnly ==
    [][ \A c \in Sockets :
          (lastCmd'.socket = c /\ lastCmd'.type \in {"add_contract", "remove_contract"}) =>
              /\ DOMAIN entities' \ {clients[c].playerId}
                    = DOMAIN entities \ {clients[c].playerId}
              /\ \A id \in DOMAIN entities \ {clients[c].playerId} :
                    entities'[id] = entities[id]
              /\ (lastCmd'.entityId # clients[c].playerId \/ clients[c].playerId = "") =>
                    /\ UNCHANGED <<entities, contractIndex>>
                    /\ \E i \in 1..Len(sent') : sent'[i].type = "error" ]_vars

\* A bound session named an entity of the store that is not its player, with
\* add_contract, and was refused
C10_OtherEntityRefused ==
    /\ lastCmd.type = "add_contract"
    /\ clients[lastCmd.socket].playerId # ""
    /\ lastCmd.entityId # clients[lastCmd.socket].playerId
    /\ lastCmd.entityId \in DOMAIN entities
    /\ sent = <<ErrorMessage("PERMISSION_DENIED")>>

\* The square of the distance between the position a movement call returned and
\* the position the entity had before the call
MovedSquared == LengthSquared(Vec3Utils_subtract(lastMove.position,
                                                 lastMove.mobility[1].position))

\* maxSpeed * deltaTime, with maxSpeed 5 when the mobility has none
SpeedLimit ==
    (IF lastMove.mobility[1].maxSpeed = NoNumber THEN 5
     ELSE lastMove.mobility[1].maxSpeed) * lastMove.deltaTime

\* C6: the position attemptMove returns lies within maxSpeed * deltaTime
\* (maxSpeed 5 when absent) of the entity's position before the call, whether
\* the result is ok, blocked or rejected for a missing shape; with deltaTime = 0
\* the returned position is the position before the call, and the result is ok
\* exactly when the entity has a shape.
C6_WithinSpeedLimit ==
    (lastMove.op # "none" /\ lastMove.mobility # <<>>) =>
        /\ MovedSquared <= SpeedLimit * SpeedLimit
        /\ lastMove.deltaTime = 0 =>
              /\ lastMove.position = lastMove.mobility[1].position
              /\ lastMove.ok <=> lastMove.shape # <<>>

\* C6 as stated: within maxSpeed * deltaTime of the position before the call
\* for every entity, and with deltaTime = 0 the result is ok with the current
\* position.
C6_AsStated ==
    (lastMove.op # "none" /\ lastMove.mobility # <<>>) =>
        /\ MovedSquared <= SpeedLimit * SpeedLimit
        /\ lastMove.deltaTime = 0 =>
              (lastMove.ok /\ lastMove.position = lastMove.mobility[1].position)

\* A move with a positive deltaTime was stopped by the solid entity on its way,
\* short of the proposed position and away from its start
C6_BlockedOnTheWay ==
    /\ lastMove.op = "attemptMove"
    /\ lastMove.deltaTime > 0
    /\ ~lastMove.ok
    /\ lastMove.blockedReason = "Blocked by entity wall"
    /\ lastMove.position # lastMove.mobility[1].position

\* C11: when a session ends (its socket closes, whatever transport events came
\* before), its bound player is no longer in the entity store, its client id is
\* in no chunk subscriber set, and the client maps do not hold the session.
C11_EndedSessionLeavesNothing ==
    [][ \A c \in Sockets :
          (lastCmd'.type = "close" /\ lastCmd'.socket = c) =>
              /\ clients[c].playerId # "" => clients[c].playerId \notin DOMAIN entities'
              /\ \A k \in DOMAIN chunkSubscriptions' : c \notin chunkSubscriptions'[k]
              /\ ~clients'[c].mapped ]_vars

\* The layer a player is registered to: the layer it logged in to, which lists
\* it beside the default layer of the tracking hook
LayerOfPlayer(id) ==
    IF \E i \in 1..Len(entitiesByLayer') :
          entitiesByLayer'[i].layer # "default" /\ id \in Range(entitiesByLayer'[i].members)
    THEN entitiesByLayer'[CHOOSE i \in 1..Len(entitiesByLayer') :
                            /\ entitiesByLayer'[i].layer # "default"
                            /\ id \in Range(entitiesByLayer'[i].members)].layer
    ELSE "default"

\* The cube of chunk key strings of the chunk radius around the chunk of position
ChunkCube(layerId, position, chunkRadius) ==
    { ChunkUtils_toString(ChunkUtils_create(layerId, x, y, z)) :
        x \in (FloorDiv(position.x, CHUNK_SIZE * Unit) - chunkRadius)
                 .. (FloorDiv(position.x, CHUNK_SIZE * Unit) + chunkRadius),
        y \in (FloorDiv(position.y, CHUNK_HEIGHT * Unit) - chunkRadius)
                 .. (FloorDiv(position.y, CHUNK_HEIGHT * Unit) + chunkRadius),
        z \in (FloorDiv(position.z, CHUNK_SIZE * Unit) - chunkRadius)
                 .. (FloorDiv(position.z, CHUNK_SIZE * Unit) + chunkRadius) }

\* The set of chunks the view of the session's player asks for, after the step
DesiredAfter(c, radius) ==
    ChunkCube(LayerOfPlayer(clients'[c].playerId),
              getContract([entities |-> entities', contractIndex |-> contractIndex'],
                          clients'[c].playerId, "mobility")[1].position,
              Max2(0, CeilDiv(radius, CHUNK_SIZE * Unit)))

\* C12: after set_view(R), R >= 0, is processed for a bound player at position
\* P, the session's subscription set is the cube of chunks of radius
\* max(0, ceil(R / S)) around the chunk of P in the player's layer.
C12_ViewIsChunkCube ==
    [][ \A c \in Sockets :
          (/\ lastCmd'.type = "set_view" /\ lastCmd'.socket = c
           /\ \E i \in 1..Len(sent') : sent'[i].type = "set_view_ok") =>
              \A i \in 1..Len(sent') :
                  sent'[i].type = "set_view_ok" =>
                      clients'[c].subscribedChunks = DesiredAfter(c, sent'[i].radius) ]_vars

\* The step is a move or move_dir of session c that succeeded and took its
\* player, which has a view radius, into a different chunk
MovedToOtherChunk(c) ==
    /\ lastCmd'.socket = c /\ lastCmd'.type \in {"move", "move_dir"}
    /\ clients[c].playerId # "" /\ clients[c].viewRadius > 0
    /\ \E i \in 1..Len(sent') : sent'[i].type = "move_result" /\ sent'[i].success
    /\ getContract(Store, clients[c].playerId, "mobility") # <<>>
    /\ worldToChunk(getContract(Store, clients[c].playerId, "mobility")[1].position,
                    CHUNK_SIZE)
         # worldToChunk(getContract([entities |-> entities',
                                     contractIndex |-> contractIndex'],
                                    clients[c].playerId, "mobility")[1].position,
                        CHUNK_SIZE)

\* The chunk keys of the snapshots among the messages, in the order sent
SnapshotKeys(msgs) ==
    LET snaps == SelectSeq(msgs, LAMBDA m : m.type = "chunk_snapshot")
    IN [i \in 1..Len(snaps) |-> ChunkUtils_toString(snaps[i].chunkKey)]

\* C13: after a move or move_dir that takes a player with a view radius into a
\* different chunk, the session's subscription set is the desired set around the
\* new chunk, the subscriber sets agree with it, and the session was sent exactly
\* one chunk_snapshot for each newly subscribed chunk and none for a chunk it kept.
C13_MoveRefreshesView ==
    [][ \A c \in Sockets :
          MovedToOtherChunk(c) =>
              /\ clients'[c].subscribedChunks = DesiredAfter(c, clients[c].viewRadius)
              /\ \A k \in DOMAIN chunkSubscriptions' \cup DesiredAfter(c, clients[c].viewRadius) :
                    (k \in DOMAIN chunkSubscriptions' /\ c \in chunkSubscriptions'[k])
                        <=> k \in DesiredAfter(c, clients[c].viewRadius)
              /\ Range(SnapshotKeys(sent'))
                    = DesiredAfter(c, clients[c].viewRadius) \ clients[c].subscribedChunks
              /\ \A i, j \in 1..Len(SnapshotKeys(sent')) :
                    SnapshotKeys(sent')[i] = SnapshotKeys(sent')[j] => i = j ]_vars

\* The step is a damage call that brought the health of entity id to 0
DamagedToZero(id) ==
    /\ lastCmd'.type = "damage" /\ lastCmd'.entityId = id
    /\ lastOp'.err = "none"
    /\ getContract(Store, id, "durability") # <<>>
    /\ \E amount \in DamageAmounts :
          /\ lastOp'.type = ToString(amount)
          /\ getContract(Store, id, "durability")[1].health
                - calculateActualDamage(amount,
                                        getContract(Store, id, "durability")[1].armor) <= 0

\* C14: when damage(id, amount) brings the health of a member of chunk C to 0,
\* the entity is afterwards absent from the store and from the members of C, and
\* every subscriber of C has been sent a despawn notification for id that names C
\* and carries a version above the version of the snapshots sent for C.
C14_DestroyedLeavesChunk ==
    [][ \A id \in DamageTargets : \A k \in ChunksListing(id) :
          DamagedToZero(id) =>
              /\ id \notin DOMAIN entities'
              /\ id \notin Range(chunks'[k].entities)
              /\ k \in DOMAIN chunkSubscriptions =>
                    \A s \in chunkSubscriptions[k] :
                        \E i \in 1..Len(broadcast') :
                            /\ broadcast'[i].to = s
                            /\ broadcast'[i].message.type = "entity_despawn"
                            /\ broadcast'[i].message.entityId = id
                            /\ ChunkUtils_toString(broadcast'[i].message.chunkKey) = k
                            /\ broadcast'[i].message.version
                                  > sendChunkSnapshot(Store, chunks[k].key).version ]_vars

\* The step is a successful move, move_dir, add_contract or remove_contract of
\* session c on its own player, which has a position afterwards
PlayerChanged(c) ==
    /\ lastCmd'.socket = c /\ clients'[c].playerId # ""
    /\ \/ /\ lastCmd'.type \in {"move", "move_dir"}
          /\ \E i \in 1..Len(sent') : sent'[i].type = "move_result" /\ sent'[i].success
       \/ /\ lastCmd'.type \in {"add_contract", "remove_contract"}
          /\ lastCmd'.entityId = clients'[c].playerId
          /\ \A i \in 1..Len(sent') : sent'[i].type # "error"
    /\ getContract([entities |-> entities', contractIndex |-> contractIndex'],
                   clients'[c].playerId, "mobility") # <<>>

\* The delivery is an entity update for the player that names the chunk
IsUpdateOf(d, playerId, keyStr) ==
    /\ d.message.type = "entity_update"
    /\ d.message.entityId = playerId
    /\ ChunkUtils_toString(d.message.chunkKey) = keyStr

\* C15: after a successful move, move_dir, add_contract or remove_contract on a
\* player located in chunk C, every open session subscribed to C is sent an
\* entity update for the player naming C, and no session not subscribed to C is.
C15_UpdateReachesSubscribers ==
    [][ \A c \in Sockets :
          PlayerChanged(c) =>
              \A k \in DesiredAfter(c, 0) :
                  /\ \A s \in Sockets :
                        (clients'[s].open /\ k \in clients'[s].subscribedChunks) =>
                            \E i \in 1..Len(broadcast') :
                                /\ broadcast'[i].to = s
                                /\ IsUpdateOf(broadcast'[i], clients'[c].playerId, k)
                  /\ \A i \in 1..Len(broadcast') :
                        IsUpdateOf(broadcast'[i], clients'[c].playerId, k) =>
                            k \in clients'[broadcast'[i].to].subscribedChunks ]_vars

\* The members of the chunk record under the key string (none without a record)
MembersOf(keyStr) ==
    IF keyStr \in DOMAIN chunks THEN Range(chunks[keyStr].entities) ELSE {}

\* The entity has a position, and it lies in the chunk of the key and its layer
LocatedIn(id, chunkKey) ==
    /\ getContract(Store, id, "mobility") # <<>>
    /\ worldToChunk(getContract(Store, id, "mobility")[1].position, CHUNK_SIZE)
         = [cx |-> chunkKey.cx, cy |-> chunkKey.cy, cz |-> chunkKey.cz]
    /\ id \in Range(getEntitiesInLayer(entitiesByLayer, chunkKey.layerId))

\* C16: the chunk snapshot sent to a session when it subscribes to chunk C lists
\* exactly the entities that are members of C at that moment, and no entity
\* located in another chunk or another layer.
C16_SnapshotListsMembers ==
    \A i \in 1..Len(sent) :
        sent[i].type = "chunk_snapshot" =>
            /\ sent[i].entities = MembersOf(ChunkUtils_toString(sent[i].chunkKey))
            /\ \A id \in sent[i].entities : LocatedIn(id, sent[i].chunkKey)

\* The entity exists, the contract is valid, and the entity holds as many
\* contracts of its type as the limit on the type allows
AtLimit(id, c) ==
    /\ hasEntity(Store, id)
    /\ validate(c)
    /\ Len(OfType(entities[id], c.type))
         = getMaxContractsAllowed(DefaultLimits, c.type,
                                  getContract(Store, id, "contract_limit"))

\* addContract(id, c) evicts the oldest contract of the type, then adds c
EvictsThenAdds(id, c, old, r) ==
    /\ r.err = "none"
    /\ Len(r.log) = 2
    /\ r.log[1].ev = "contractRemove" /\ r.log[1].id = id /\ r.log[1].contract = old[1]
    /\ r.log[2].ev = "contractAdd" /\ r.log[2].id = id /\ r.log[2].contract = c
    /\ OfType(r.st.entities[id], c.type) = Tail(old) \o <<c>>
    /\ Len(old) = 1 => getContract(r.st, id, c.type) = <<c>>

\* C17: when addContract(E, c) is called while E holds as many contracts of c's
\* type as its limit allows, the oldest of them is removed and its remove hook
\* fires before c is inserted and c's add hook fires; with limit 1 getContract
\* then returns c and one contract of the type exists, with limit N the entity
\* holds the N most recently added ones.
C17_OldestEvictedAtLimit ==
    \A id \in StoreIds : \A c \in StoreContracts(id) :
        AtLimit(id, c) =>
            EvictsThenAdds(id, c, OfType(entities[id], c.type),
                           addContract(Store, DefaultLimits, id, c))

\* An addContract call has just evicted the oldest of three portables of an
\* entity that differs from the newest, and added a fourth in its place
C17_EvictedOneOfThree ==
    /\ lastOp.op = "addContract" /\ lastOp.err = "none"
    /\ Len(hookLog) = 2
    /\ hookLog[1].ev = "contractRemove" /\ hookLog[1].type = "portable"
    /\ hookLog[2].ev = "contractAdd" /\ hookLog[2].type = "portable"
    /\ hookLog[1].contract # hookLog[2].contract
    /\ Len(OfType(entities[lastOp.id], "portable")) = 3
    /\ entities[lastOp.id][1] # entities[lastOp.id][3]

\* The proposed position of the recorded call: the target, brought back to
\* maxSpeed * deltaTime from the position before the call
Proposed ==
    LET direction == Vec3Utils_subtract(lastMove.want, lastMove.mobility[1].position)
    IN IF Vec3Utils_length(direction) < COLLISION_EPSILON THEN lastMove.mobility[1].position
       ELSE Vec3Utils_add(lastMove.mobility[1].position,
                ScaleVec3(direction,
                          Min2(Vec3Utils_length(direction), SpeedLimit),
                          Vec3Utils_length(direction)))

\* The entities other than the mover with shape, mobility and solidity.solid
Obstacles ==
    {o \in DOMAIN entities \ {lastMove.entityId} :
        /\ getContract(Store, o, "shape") # <<>>
        /\ getContract(Store, o, "mobility") # <<>>
        /\ getContract(Store, o, "solidity") # <<>>
        /\ getContract(Store, o, "solidity")[1].solid}

BoxOf(id) ==
    getEntityAABB(getContract(Store, id, "shape")[1],
                  getContract(Store, id, "mobility")[1].position)

\* The mover's box placed at position p overlaps the inside of the box
Overlaps(p, box) ==
    \A a \in {"x", "y", "z"} :
        /\ lastMove.shape[1].bounds.min[a] + p[a] < box.max[a]
        /\ lastMove.shape[1].bounds.max[a] + p[a] > box.min[a]

\* The times t at which the mover's box, carried along the straight path from
\* the position before the call (t = 0) to the proposed position (t = 1),
\* overlaps the inside of the box on axis a: none, or the open span (lo, hi)
Span(a, box) ==
    LET s0 == lastMove.mobility[1].position[a]
        d == Proposed[a] - s0
        from == box.min[a] - (lastMove.shape[1].bounds.max[a] + s0)
        to == box.max[a] - (lastMove.shape[1].bounds.min[a] + s0)
    IN IF d = 0 THEN [none |-> ~(from < 0 /\ 0 < to), lo |-> Ratio(0 - 1, 1),
                      hi |-> Ratio(2, 1), d |-> 0]
       ELSE IF d > 0 THEN [none |-> FALSE, lo |-> Ratio(from, d), hi |-> Ratio(to, d),
                           d |-> d]
       ELSE [none |-> FALSE, lo |-> Ratio(to, d), hi |-> Ratio(from, d), d |-> d]

\* The axis on which the path enters the box last: the entry axis
EntryAxes(box) ==
    {a \in {"x", "y", "z"} :
        \A b \in {"x", "y", "z"} : ~RatioLess(Span(a, box).lo, Span(b, box).lo)}

\* The path enters the box: outside or touching at t = 0, inside at some t < 1
Enters(box) ==
    /\ \A a \in {"x", "y", "z"} : ~Span(a, box).none
    /\ \E a \in EntryAxes(box) :
          /\ ~RatioLess(Span(a, box).lo, Ratio(0, 1))
          /\ RatioLess(Span(a, box).lo, Ratio(1, 1))
          /\ \A b \in {"x", "y", "z"} : RatioLess(Span(a, box).lo, Span(b, box).hi)

\* C18: if the straight path of the mover's box from its position to the
\* speed-clamped proposed position enters the box of another entity with shape,
\* mobility and solidity.solid = true, attemptMove returns ok = false, a
\* blockedReason naming an entity, a position that does not reach the obstacle,
\* and a collision normal that is the unit vector of the entry axis pointing
\* against the direction of travel.
C18_BlockedWithNormal ==
    (lastMove.op # "none" /\ lastMove.mobility # <<>> /\ lastMove.shape # <<>>) =>
        \A o \in Obstacles :
            Enters(BoxOf(o)) =>
                /\ ~lastMove.ok
                /\ \E b \in Obstacles :
                      /\ lastMove.blockedReason = "Blocked by entity " \o b
                      /\ \E a \in EntryAxes(BoxOf(b)) :
                            lastMove.collisionNormal
                                = <<AxisNormal(a, Span(a, BoxOf(b)).d)>>
                /\ ~Overlaps(lastMove.position, BoxOf(o))

\* The entities whose solidity says solid = false
NonSolids ==
    {e \in DOMAIN entities :
        /\ getContract(Store, e, "solidity") # <<>>
        /\ ~getContract(Store, e, "solidity")[1].solid}

\* The world of the movement system with the entity removed from the store
WorldWithout(e) == [MoveWorldNow EXCEPT !.st = removeEntity(Store, e).st]

\* C19: an entity whose solidity.solid is false never blocks: for every mover,
\* target and deltaTime, attemptMove returns the result it would return if the
\* entity were not in the store.
C19_NonSolidNeverBlocks ==
    \A e \in NonSolids :
        \A id \in MoveIds \ {e} : \A want \in MoveTargets(id), deltaTime \in DeltaTimes :
            attemptMove(MoveWorldNow, id, want, deltaTime)
                = attemptMove(WorldWithout(e), id, want, deltaTime)

\* A mover has just been allowed to a position at which its box overlaps the
\* box of the non-solid entity
C19_PassedThroughCurtain ==
    /\ lastMove.op # "none" /\ lastMove.shape # <<>>
    /\ lastMove.ok
    /\ lastMove.position # lastMove.mobility[1].position
    /\ \E e \in NonSolids \ {lastMove.entityId} :
          /\ getContract(Store, e, "shape") # <<>>
          /\ getContract(Store, e, "mobility") # <<>>
          /\ Overlaps(lastMove.position, BoxOf(e))

\* C20: attemptMove on an entity without mobility returns ok = false with the
\* reason "No mobility contract"; on an entity with mobility and without shape it
\* returns ok = false with the reason "No shape contract" and the entity's
\* current position; in both cases no component of any entity is changed.
C20_RejectedWithoutChange ==
    [][ lastMove'.op = "attemptMove" =>
            /\ lastMove'.mobility = <<>> =>
                  /\ ~lastMove'.ok
                  /\ lastMove'.blockedReason = "No mobility contract"
                  /\ entities' = entities /\ contractIndex' = contractIndex
            /\ (lastMove'.mobility # <<>> /\ lastMove'.shape = <<>>) =>
                  /\ ~lastMove'.ok
                  /\ lastMove'.blockedReason = "No shape contract"
                  /\ lastMove'.position = lastMove'.mobility[1].position
                  /\ entities' = entities /\ contractIndex' = contractIndex ]_vars

\* attemptMove has just rejected an entity that has mobility, away from the
\* origin, and no shape
C20_ShapelessRejected ==
    /\ lastMove.op = "attemptMove"
    /\ lastMove.mobility # <<>> /\ lastMove.shape = <<>>
    /\ ~lastMove.ok
    /\ lastMove.position # Vec3(0, 0, 0)

\* C21: for every chunk key k, whatever its layer id and integer coordinates,
\* fromString(toString(k)) equals k, and fromString returns null for every
\* string that is not the serialization of a key.
C21_KeyRoundTrip ==
    /\ lastOp.op = "toString" => lastOp.parsed = <<lastOp.key>>
    /\ (lastOp.op = "fromString" /\ lastOp.parsed # <<>>) =>
          toStringChars(lastOp.parsed[1]) = lastOp.str

\* The chunk indices the claim asks for on one axis: 0 alone when the box
\* straddles 0 with a span below the extent of a cell, else every cell
\* [c * extent, (c + 1) * extent) that overlaps [min, max)
CellsOnAxis(min, max, extent) ==
    IF min < 0 /\ max > 0 /\ max - min < extent THEN {0}
    ELSE {c \in (FloorDiv(min, extent) - 1)..(FloorDiv(max, extent) + 1) :
            c * extent < max /\ (c + 1) * extent > min}

\* C22: getIntersectingChunks returns, without duplicates, exactly the chunk
\* cells whose extent overlaps the half-open box [min, max), a max on a chunk
\* boundary not including the next cell; on an axis where the box straddles 0
\* with a span smaller than the chunk size, only chunk index 0 is returned.
C22_CellsOverlappingBox ==
    lastOp.op = "getIntersectingChunks" =>
        /\ \A i, j \in 1..Len(lastOp.chunks) : lastOp.chunks[i] = lastOp.chunks[j] => i = j
        /\ Range(lastOp.chunks)
             = { ChunkUtils_create("test", cx, cy, cz) :
                   cx \in CellsOnAxis(lastOp.bounds.min.x, lastOp.bounds.max.x,
                                      CHUNK_SIZE * Unit),
                   cy \in CellsOnAxis(lastOp.bounds.min.y, lastOp.bounds.max.y,
                                      CHUNK_HEIGHT * Unit),
                   cz \in CellsOnAxis(lastOp.bounds.min.z, lastOp.bounds.max.z,
                                      CHUNK_SIZE * Unit) }

\* C23: starting from a durability with 0 <= health <= maxHealth, after any
\* sequence of damage, heal and repair calls with arbitrary amounts (zero and
\* negative included) the stored health stays within [0, maxHealth].
C23_HealthStaysInRange ==
    \A id \in DOMAIN entities :
        \A i \in 1..Len(entities[id]) :
            entities[id][i].type = "durability" =>
                /\ 0 <= entities[id][i].health
                /\ entities[id][i].health <= entities[id][i].maxHealth

\* A heal by more than was missing has just been stored as the full health
C23_HealCapped ==
    /\ lastOp.op = "heal" /\ lastOp.ok
    /\ lastOp.before[1].health + lastOp.amount > lastOp.before[1].maxHealth
    /\ getContract(Store, "target", "durability")[1].health = lastOp.before[1].maxHealth

\* C24: after an allowed logout is processed, the session has no bound player,
\* the former player entity is absent from the entity store, the session's
\* subscription set is empty, its client id is in no chunk subscriber set,
\* and logout_ok is sent once.
C24_LogoutLeavesNothing ==
    [][ \A c \in Sockets :
          ( /\ lastCmd'.type = "logout" /\ lastCmd'.socket = c
            /\ isCommandAllowed(Store, clients[c], "logout") ) =>
              /\ clients'[c].playerId = ""
              /\ clients[c].playerId # "" => clients[c].playerId \notin DOMAIN entities'
              /\ clients'[c].subscribedChunks = {}
              /\ \A k \in DOMAIN chunkSubscriptions' : c \notin chunkSubscriptions'[k]
              /\ sent' = <<[type |-> "logout_ok"]>> ]_vars

\* A logout has removed the player the session had created, while another
\* session keeps its subscriptions
C24_LoggedOutBesideSubscriber ==
    /\ lastCmd.type = "logout"
    /\ sent = <<[type |-> "logout_ok"]>>
    /\ clients[lastCmd.socket].playerId = ""
    /\ \E id \in {"player-2", "player-3"} :
          /\ id \notin DOMAIN entities
          /\ playerCounter >= (IF id = "player-2" THEN 2 ELSE 3)
          /\ \A c \in Sockets : clients[c].playerId # id
    /\ \E k \in DOMAIN chunkSubscriptions :
          chunkSubscriptions[k] \ {lastCmd.socket} # {}

\* C25: a save followed by a load (with any changes to the world between them)
\* restores exactly the saved entities (ids, components, layer assignment) and
\* the playerCounter, a saved counter of 0 included.
C25_LoadRestoresSaved ==
    lastCmd.type = "load" =>
        /\ saveWorld(CurrentWorld).entities = lastOp.worldData[1].entities
        /\ playerCounter = lastOp.worldData[1].playerCounter

\* Components that fail the schema: a negative health, a maxHealth of 0, a
\* negative weight, a limit of 0 and an unregistered type
InvalidContracts ==
    { createDurability(5, 0 - 1),
      [createDurability(5, 5) EXCEPT !.maxHealth = 0],
      [createPortable(1) EXCEPT !.weight = 0 - 1],
      createContractLimit(<<[contractType |-> "portable", max |-> 0]>>),
      [type |-> "bogus"] }

\* C26: addContract with a component that fails schema validation throws and
\* leaves the store unchanged (the entity's components and the index are as
\* before), and no add or remove hook fires.
C26_InvalidAddChangesNothing ==
    /\ \A id \in StoreIds, c \in InvalidContracts :
          /\ addContract(Store, DefaultLimits, id, c).err # "none"
          /\ addContract(Store, DefaultLimits, id, c).st = Store
          /\ addContract(Store, DefaultLimits, id, c).log = <<>>
    /\ (lastOp.op = "addContract" /\ lastOp.err = "invalid") => hookLog = <<>>

\* An invalid durability was refused on an entity that holds its full three
\* contracts, a durability among them
C26_RefusedOnFullEntity ==
    /\ lastOp.op = "addContract" /\ lastOp.err = "invalid"
    /\ lastOp.type = "durability"
    /\ Len(getContracts(Store, lastOp.id)) = MaxContracts
    /\ getContract(Store, lastOp.id, "durability") # <<>>

RecordBefore(keyStr) ==
    IF keyStr \in DOMAIN chunks THEN chunks[keyStr]
    ELSE getChunk(EmptyChunks, chunks'[keyStr].key).chunks[keyStr]

\* The step changed the members, the voxels or the version of the chunk
ChunkChanged(keyStr) ==
    \/ chunks'[keyStr].entities # RecordBefore(keyStr).entities
    \/ chunks'[keyStr].solidGrid.solid # RecordBefore(keyStr).solidGrid.solid
    \/ chunks'[keyStr].version # RecordBefore(keyStr).version

\* C28: every change to a chunk (member added, member removed, voxel set,
\* content generated) raises the chunk's version by exactly one and is sent to
\* each subscriber of the chunk in a delta that carries the new version.
C28_ChangeBumpsAndSendsDelta ==
    [][ \A keyStr \in DOMAIN chunks' :
          ChunkChanged(keyStr) =>
              /\ chunks'[keyStr].version = RecordBefore(keyStr).version + 1
              /\ \A ws \in Range(chunks'[keyStr].subscriptions) :
                    \E i \in 1..Len(broadcast') :
                        /\ broadcast'[i].to = ws
                        /\ broadcast'[i].message.type = "chunk_delta"
                        /\ broadcast'[i].message.chunkKey = chunks'[keyStr].key
                        /\ broadcast'[i].message.version = chunks'[keyStr].version ]_vars

\* The length of the recorded call's path to the proposed position
Travelled == Vec3Utils_length(Vec3Utils_subtract(Proposed, lastMove.mobility[1].position))

\* The hits of the recorded attemptMove's sweep before the end of the path
\* (the sweep starts from 'no hit' at the full length): checkStaticSolids on the
\* chunks of the movement, checkDynamicSolid on the other entities with solidity
StaticHits ==
    { h \in { checkStaticSolids(getChunk(Manager, k).chunks[ChunkUtils_toString(k)],
                                 getEntityAABB(lastMove.shape[1],
                                               lastMove.mobility[1].position),
                                 Vec3Utils_subtract(Proposed,
                                                    lastMove.mobility[1].position)) :
                 k \in getChunksForMovement(lastMove.mobility[1].position, Proposed) } :
        h.hit /\ h.distance < Travelled }

DynamicHits ==
    { h \in { checkDynamicSolid(Store,
                                 getEntityAABB(lastMove.shape[1],
                                               lastMove.mobility[1].position),
                                 Vec3Utils_subtract(Proposed,
                                                    lastMove.mobility[1].position), o) :
                 o \in Range(getEntitiesWithContract(Store, "solidity"))
                          \ {lastMove.entityId} } :
        h.hit /\ h.distance < Travelled }

\* The hits at the smallest distance
NearestHits ==
    { h \in StaticHits \cup DynamicHits :
        \A g \in StaticHits \cup DynamicHits : h.distance <= g.distance }

\* C29: performSweptAABB reports the candidate hit with the smallest distance
\* among the static-grid and dynamic-entity candidates, and when a static hit
\* and a dynamic hit have the same distance the dynamic entity is reported, so
\* blockedReason names that entity.
C29_NearestHitDynamicFirst ==
    (lastMove.op = "attemptMove" /\ lastMove.mobility # <<>> /\ lastMove.shape # <<>>
        /\ NearestHits # {}) =>
        /\ ~lastMove.ok
        /\ IF NearestHits \cap DynamicHits # {}
           THEN \E h \in NearestHits \cap DynamicHits :
                    lastMove.blockedReason = "Blocked by entity " \o h.entityId
           ELSE lastMove.blockedReason = "Blocked by solid"

\* The mover's box placed at the destination lies in a solid cell of the grid
\* of the destination's chunk
InSolidVoxel(p) ==
    checkStaticSolids(
        getChunk(Manager, keyFromPos("default", p))
            .chunks[ChunkUtils_toString(keyFromPos("default", p))],
        getEntityAABB(lastMove.shape[1], p), Vec3(0, 0, 0)).hit

\* C30: teleport(entity, pos) returns false and changes nothing whenever the
\* entity's box placed at pos would overlap a solid entity or a solid voxel, at
\* any distance from the current position; otherwise it sets the position to
\* pos and the velocity to zero.
C30_TeleportRefusesSolid ==
    (lastMove.op = "teleport" /\ lastMove.mobility # <<>> /\ lastMove.shape # <<>>) =>
        IF \/ \E o \in Obstacles : Overlaps(lastMove.want, BoxOf(o))
           \/ InSolidVoxel(lastMove.want)
        THEN /\ ~lastMove.ok
             /\ getContract(Store, lastMove.entityId, "mobility") = lastMove.mobility
        ELSE /\ lastMove.ok
             /\ getContract(Store, lastMove.entityId, "mobility")
                    = <<Teleported(lastMove.mobility[1], lastMove.want)>>

(***************************************************************************)
(* SpecLimit: the registry's global limits are set through setGlobalLimit  *)
(* and contracts are added to one entity under them.  lastOp carries the   *)
(* registry's globalLimits map beside the call made last.                  *)
(***************************************************************************)
\* setGlobalLimit: globalLimits.set(contractType, limit), any number accepted
setGlobalLimit(gl, contractType, limit) ==
    [t \in DOMAIN gl \cup {contractType} |-> IF t = contractType THEN limit ELSE gl[t]]

\* The largest limit set
MaxLimit == 2

LimitTypes == {"portable", "durability"}

LimitInitialLists ==
    { <<createIdentity("e1")>>,
      <<createIdentity("e1"), createPortable(1)>>,
      <<createIdentity("e1"), createPortable(1), createPortable(2), createDurability(5, 5)>>,
      <<createIdentity("e1"),
        createContractLimit(<<[contractType |-> "portable", max |-> 1]>>),
        createPortable(1)>> }

LimitContracts ==
    {createPortable(3), createDurability(5, 5)}

LimitInit ==
    /\ \E cs \in LimitInitialLists :
          /\ entities = createEntity(EmptyStore, DefaultLimits, "e1", cs).st.entities
          /\ contractIndex = createEntity(EmptyStore, DefaultLimits, "e1", cs).st.contractIndex
    /\ lastOp = [op |-> "init", globalLimits |-> DefaultLimits, type |-> "",
                 err |-> "none", before |-> EmptyStore]
    /\ hookLog = <<>>
    /\ entitiesByLayer = <<>>
    /\ playerCounter = 0
    /\ chunks = EmptyMap
    /\ loadedChunks = {}
    /\ clients = EmptyMap
    /\ chunkSubscriptions = EmptyMap
    /\ sent = <<>>
    /\ broadcast = <<>>
    /\ lastCmd = [socket |-> "", type |-> "init", entityId |-> ""]
    /\ lastMove = NoMove
    /\ moves = 0

SetGlobalLimit ==
    \E t \in LimitTypes : \E limit \in 0..MaxLimit :
        /\ lastOp.globalLimits[t] # limit
        /\ lastOp' = [op |-> "setGlobalLimit",
                      globalLimits |-> setGlobalLimit(lastOp.globalLimits, t, limit),
                      type |-> t, err |-> "none", before |-> Store]
        /\ hookLog' = <<>>
        /\ UNCHANGED <<storeVars, serverVars, moveVars>>

\* A call that never returns leaves the store as its loop left it
LimitAddContract ==
    \E c \in LimitContracts :
        /\ hasEntity(Store, "e1")
        /\ LET r == addContract(Store, lastOp.globalLimits, "e1", c)
           IN /\ entities' = r.st.entities
              /\ contractIndex' = r.st.contractIndex
              /\ lastOp' = [op |-> "addContract", globalLimits |-> lastOp.globalLimits,
                            type |-> c.type, err |-> r.err, before |-> Store]
              /\ hookLog' = r.log
        /\ UNCHANGED <<serverVars, moveVars>>

LimitNext == SetGlobalLimit \/ LimitAddContract

SpecLimit == LimitInit /\ [][LimitNext]_vars

\* The limit in force for the contract type of the last addContract
EffectiveLimit ==
    getMaxContractsAllowed(lastOp.globalLimits, lastOp.type,
                           getContract(lastOp.before, "e1", "contract_limit"))

\* C31: when the limit in force for a contract type is 0, addContract of a
\* contract of that type returns with a limit-exceeded error and leaves the
\* entity's contracts and the contract index as they were.
C31_ZeroLimitRefuses ==
    (lastOp.op = "addContract" /\ EffectiveLimit = 0) =>
        /\ lastOp.err = "limit"
        /\ Store = lastOp.before

\* With a limit of at least 1 in force the call returns: its loop stops once
\* fewer contracts of the type are left than the limit
C31_PositiveLimitReturns ==
    (lastOp.op = "addContract" /\ EffectiveLimit >= 1) => lastOp.err # "diverges"

(***************************************************************************)
(* SpecReload: chunks are loaded and unloaded, in any order.               *)
(***************************************************************************)
\* unloadChunk: [cm, ok]; the record stays, only its loaded flag is cleared
unloadChunk(cm, chunkKey) ==
    LET keyStr == ChunkUtils_toString(chunkKey)
    IN IF keyStr \notin DOMAIN cm.chunks \/ ~cm.chunks[keyStr].loaded
       THEN [cm |-> cm, ok |-> FALSE]
       ELSE [cm |-> [cm EXCEPT !.chunks[keyStr].loaded = FALSE,
                               !.loadedChunks = @ \ {keyStr}],
             ok |-> TRUE]

\* Two chunks generateChunkContent puts a block in, one off the 4-chunk raster
\* and one above ground level
ReloadChunks ==
    { ChunkUtils_create("default", 0, 0, 0), ChunkUtils_create("default", 4, 0, 0 - 4),
      ChunkUtils_create("default", 1, 0, 0), ChunkUtils_create("default", 0, 1, 0) }

ReloadLoad ==
    \E key \in ReloadChunks :
        /\ ChunkUtils_toString(key) \notin loadedChunks
        /\ Bind(loadChunk([st |-> Store, cm |-> Manager, log |-> <<>>], key), LAMBDA w :
             Managed("loadChunk", "", w.st, w.cm, <<>>, <<>>))

ReloadUnload ==
    \E key \in ReloadChunks :
        /\ ChunkUtils_toString(key) \in DOMAIN chunks
        /\ Managed("unloadChunk", "", Store,
                   unloadChunk(Manager, key).cm, <<>>, <<>>)

ReloadNext == ReloadLoad \/ ReloadUnload

SpecReload == ChunkInit /\ [][ReloadNext]_vars

\* The keys generateChunkContent generates a block for
BlockChunks == {key \in ReloadChunks : key.cy = 0 /\ key.cx % 4 = 0 /\ key.cz % 4 = 0}

\* The generated block of a loaded chunk is in the store and a member of the chunk
BlockPresent(key) ==
    /\ hasEntity(Store, GeneratedBlockId(key))
    /\ GeneratedBlockId(key) \in Range(chunks[ChunkUtils_toString(key)].entities)

\* C32: after any sequence of loadChunk and unloadChunk on a chunk with cy = 0
\* and cx, cz multiples of 4, whenever the chunk is loaded its generated block
\* entity is in the store, is a member of the chunk, and the centre voxel of
\* the chunk's static grid is solid.
C32_LoadedChunkHasBlock ==
    \A key \in BlockChunks :
        ChunkUtils_toString(key) \in loadedChunks =>
            /\ BlockPresent(key)
            /\ isSolid(chunks[ChunkUtils_toString(key)], SolidGridResolution \div 2,
                       SolidGridResolution \div 2, SolidGridResolution \div 2)

\* What every reload keeps: the block entity and its membership
C32_LoadedChunkKeepsEntity ==
    \A key \in BlockChunks :
        ChunkUtils_toString(key) \in loadedChunks => BlockPresent(key)

(***************************************************************************)
(* SpecCleanup: one run of the cleanup timer's cleanupOldChunks on a       *)
(* manager whose records carry the lastAccessed time getChunk stamps on    *)
(* them.  The caps and headrooms are scaled down with the number of        *)
(* chunks; times are milliseconds.                                         *)
(***************************************************************************)
chunkUnloadDelay == 60000

\* Scaled maxLoadedChunks (1000) and the headroom of the unload step (100)
MaxLoadedChunks == 2
UnloadHeadroom == 1

\* Scaled maxRetainedChunks (20000) and the headroom of the eviction step (500)
MaxRetainedChunks == 2
EvictHeadroom == 1

CleanupKeys ==
    { ChunkUtils_create("default", 1, 0, 0), ChunkUtils_create("default", 2, 0, 0),
      ChunkUtils_create("default", 3, 0, 0) }

\* Date.now() of the run, and the lastAccessed times of the records before it
CleanupTime == 3 * chunkUnloadDelay
AccessTimes == {0, chunkUnloadDelay, 2 * chunkUnloadDelay, CleanupTime}

\* What the API calls before the run left in a record
RecordShapes ==
    [loaded : BOOLEAN, entities : {<<>>, <<"a">>}, subscriptions : {<<>>, <<"c1">>},
     lastAccessed : AccessTimes]

RecordOf(key, shape) ==
    [key |-> key, entities |-> shape.entities, loaded |-> shape.loaded, version |-> 1,
     solidGrid |-> IF shape.loaded THEN [width |-> SolidGridResolution, solid |-> {}]
                   ELSE NoGrid,
     subscriptions |-> shape.subscriptions, lastAccessed |-> shape.lastAccessed]

\* The n entries first in the order of sort((a, b) => a.lastAccessed - b.lastAccessed);
\* entries of equal time keep the insertion order of the map, which is any order
Stalest(cm, keys, n) ==
    {S \in SUBSET keys :
        /\ Cardinality(S) = n
        /\ \A s \in S, t \in keys \ S :
              cm.chunks[s].lastAccessed <= cm.chunks[t].lastAccessed}

RECURSIVE UnloadEach(_, _)
UnloadEach(cm, keyStrs) ==
    IF keyStrs = {} THEN cm
    ELSE LET k == CHOOSE x \in keyStrs : TRUE
         IN UnloadEach(unloadChunk(cm, cm.chunks[k].key).cm, keyStrs \ {k})

\* Step 1 of cleanupOldChunks: how many loaded chunks are unloaded
UnloadCount(cm) ==
    IF Cardinality(cm.loadedChunks) > MaxLoadedChunks
    THEN Max2(0, Min2(Cardinality(cm.loadedChunks) - MaxLoadedChunks + UnloadHeadroom,
                      Cardinality(cm.loadedChunks \cap DOMAIN cm.chunks)))
    ELSE 0

CandidatesMutant(cm, now) ==
    {k \in DOMAIN cm.chunks :
        /\ ~cm.chunks[k].loaded
        /\ cm.chunks[k].entities = <<>>
        /\ now - cm.chunks[k].lastAccessed > chunkUnloadDelay * 2}

\* Step 2: the records that may be evicted
Candidates(cm, now) ==
    {k \in DOMAIN cm.chunks :
        /\ ~cm.chunks[k].loaded
        /\ cm.chunks[k].entities = <<>>
        /\ cm.chunks[k].subscriptions = <<>>
        /\ now - cm.chunks[k].lastAccessed > chunkUnloadDelay * 2}

\* Step 2: how many of them are evicted
DeleteCount(cm, now) ==
    IF Cardinality(DOMAIN cm.chunks) > MaxRetainedChunks
    THEN Max2(0, Min2(Cardinality(DOMAIN cm.chunks) - MaxRetainedChunks + EvictHeadroom,
                      Cardinality(Candidates(cm, now))))
    ELSE 0

\* cleanupOldChunks: the outcomes [cm, unloaded, deleted] of one run at time now
cleanupOldChunks(cm, now) ==
    { [cm |-> [chunks |-> [k \in DOMAIN cm.chunks \ D |-> UnloadEach(cm, U).chunks[k]],
               loadedChunks |-> UnloadEach(cm, U).loadedChunks],
       unloaded |-> U, deleted |-> D] :
        <<U, D>> \in
          { p \in (SUBSET DOMAIN cm.chunks) \X (SUBSET DOMAIN cm.chunks) :
              /\ p[1] \in Stalest(cm, cm.loadedChunks \cap DOMAIN cm.chunks, UnloadCount(cm))
              /\ p[2] \in Stalest(cm, Candidates(UnloadEach(cm, p[1]), now),
                                  DeleteCount(UnloadEach(cm, p[1]), now)) } }

CleanupInit ==
    /\ \E present \in SUBSET CleanupKeys : \E f \in [present -> RecordShapes] :
          /\ chunks = [s \in {ChunkUtils_toString(k) : k \in present} |->
                          LET k == CHOOSE x \in present : ChunkUtils_toString(x) = s
                          IN RecordOf(k, f[k])]
          /\ loadedChunks = {ChunkUtils_toString(k) : k \in {x \in present : f[x].loaded}}
    /\ entities = EmptyMap
    /\ contractIndex = EmptyMap
    /\ lastOp = [op |-> "init", now |-> CleanupTime, before |-> EmptyChunks,
                 unloaded |-> {}, deleted |-> {}]
    /\ hookLog = <<>>
    /\ entitiesByLayer = <<>>
    /\ playerCounter = 0
    /\ clients = EmptyMap
    /\ chunkSubscriptions = EmptyMap
    /\ sent = <<>>
    /\ broadcast = <<>>
    /\ lastCmd = [socket |-> "", type |-> "init", entityId |-> ""]
    /\ lastMove = NoMove
    /\ moves = 0

\* The timer fires once
CleanupOldChunks ==
    /\ lastOp.op = "init"
    /\ \E r \in cleanupOldChunks(Manager, lastOp.now) :
          /\ chunks' = r.cm.chunks
          /\ loadedChunks' = r.cm.loadedChunks
          /\ lastOp' = [op |-> "cleanupOldChunks", now |-> lastOp.now, before |-> Manager,
                        unloaded |-> r.unloaded, deleted |-> r.deleted]
    /\ UNCHANGED <<storeVars, entitiesByLayer, playerCounter, clients, chunkSubscriptions,
                   sent, broadcast, lastCmd, hookLog, moveVars>>

CleanupNext == CleanupOldChunks

SpecCleanup == CleanupInit /\ [][CleanupNext]_vars

\* A record the eviction step must keep: it has a member or a subscriber, or
\* was accessed no longer ago than twice the unload delay
InUse(rec, now) ==
    \/ rec.entities # <<>>
    \/ rec.subscriptions # <<>>
    \/ now - rec.lastAccessed <= chunkUnloadDelay * 2

\* C33 as stated: the cleanup never deletes the record of a chunk that is
\* loaded, has a member, has a subscriber or was accessed within the last
\* 2 x unload delay, and it deletes records only while the number of records
\* exceeds maxRetainedChunks.
C33_AsStated ==
    lastOp.op = "cleanupOldChunks" =>
        /\ \A k \in lastOp.deleted :
              /\ ~lastOp.before.chunks[k].loaded
              /\ ~InUse(lastOp.before.chunks[k], lastOp.now)
        /\ lastOp.deleted # {} => Cardinality(DOMAIN chunks) >= MaxRetainedChunks

\* C33: the cleanup deletes no record that has a member, has a subscriber or
\* was accessed within the last 2 x unload delay, and none of a chunk that is
\* still loaded after the unload step of the same run; it deletes records only
\* in a run that starts with more than maxRetainedChunks records, and then at
\* most the excess plus the headroom, the stalest candidates first.
C33_DeletesOnlyIdle ==
    lastOp.op = "cleanupOldChunks" =>
        /\ \A k \in lastOp.deleted :
              /\ ~lastOp.before.chunks[k].loaded \/ k \in lastOp.unloaded
              /\ ~InUse(lastOp.before.chunks[k], lastOp.now)
              /\ \A t \in DOMAIN chunks :
                    (~chunks[t].loaded /\ ~InUse(chunks[t], lastOp.now)) =>
                        lastOp.before.chunks[k].lastAccessed <= chunks[t].lastAccessed
        /\ lastOp.deleted # {} =>
              /\ Cardinality(DOMAIN lastOp.before.chunks) > MaxRetainedChunks
              /\ Cardinality(lastOp.deleted)
                    <= Cardinality(DOMAIN lastOp.before.chunks) - MaxRetainedChunks
                           + EvictHeadroom
        /\ DOMAIN chunks = DOMAIN lastOp.before.chunks \ lastOp.deleted
        /\ loadedChunks = {k \in DOMAIN chunks : chunks[k].loaded}

\* A run that evicts a stale record and keeps an equally stale one that has a
\* subscriber
C33_EvictedBesideSubscribed ==
    /\ lastOp.op = "cleanupOldChunks"
    /\ lastOp.deleted # {}
    /\ \E t \in DOMAIN chunks :
          /\ chunks[t].subscriptions # <<>>
          /\ chunks[t].entities = <<>>
          /\ ~chunks[t].loaded
          /\ chunks[t].lastAccessed = 0

(***************************************************************************)
(* SpecHeartbeat: the heartbeat timer of the WebSocket server beside        *)
(* connections that log in, subscribe, answer pings or fall silent.  A      *)
(* connection carries client.isAlive, whether ws.terminate() has been       *)
(* called on its socket, and the number of heartbeat ticks since its last   *)
(* pong (since the connection, before the first pong), counted up to 2.     *)
(* terminate() destroys the socket: no message of it is handled afterwards  *)
(* and its 'close' event is emitted.                                        *)
(***************************************************************************)
Heartbeating == [isAlive |-> TRUE, terminated |-> FALSE, silent |-> 0]

heartbeatMutant(client) ==
    IF ~client.mapped THEN client
    ELSE [client EXCEPT !.isAlive = FALSE]

\* The body of the heartbeat's forEach for one socket of wss.clients
heartbeat(client) ==
    IF ~client.mapped THEN client
    ELSE IF ~client.isAlive THEN [client EXCEPT !.terminated = TRUE]
    ELSE [client EXCEPT !.isAlive = FALSE]

\* The 'pong' listener
handlePong(client) ==
    IF client.mapped THEN [client EXCEPT !.isAlive = TRUE] ELSE client

Live(c) == clients[c].open /\ ~clients[c].terminated

Terminated(c) == clients[c].open /\ clients[c].terminated

HeartbeatConnect ==
    \E c \in Sockets :
        /\ ~clients[c].open
        /\ \A k \in DOMAIN chunkSubscriptions : c \notin chunkSubscriptions[k]
        /\ Handled(c, "connection", "",
                   [S |-> [ServerState EXCEPT !.clients[c] = NewClient @@ Heartbeating],
                    out |-> handleConnection(ServerState, c).out])

HeartbeatLogin ==
    \E c \in Sockets : \E layerId \in LoginLayers(c) :
        /\ Live(c) /\ MayCreate(c)
        /\ Handled(c, "login", "", handleLoginMessage(ServerState, c, layerId))

HeartbeatSubscribe ==
    \E c \in Sockets : \E chunkKeys \in SubscribeKeys(c) :
        /\ Live(c)
        /\ Handled(c, "subscribe_chunks", "",
                   handleSubscribeChunks(ServerState, c, chunkKeys))

\* The timer fires: every socket of the server is visited
HeartbeatTick ==
    /\ \E c \in Sockets : clients[c].open
    /\ clients' = [c \in Sockets |->
                     IF ~clients[c].open THEN clients[c]
                     ELSE [heartbeat(clients[c]) EXCEPT !.silent = Min2(@ + 1, 2)]]
    /\ sent' = <<>>
    /\ broadcast' = <<>>
    /\ lastCmd' = [socket |-> "", type |-> "heartbeat", entityId |-> ""]
    /\ UNCHANGED <<storeVars, entitiesByLayer, playerCounter, chunks, loadedChunks,
                   chunkSubscriptions, lastOp, hookLog, moveVars>>

\* A pong of the peer arrives
Pong ==
    \E c \in Sockets :
        /\ Live(c)
        /\ clients' = [clients EXCEPT ![c] = [handlePong(@) EXCEPT !.silent = 0]]
        /\ sent' = <<>>
        /\ broadcast' = <<>>
        /\ lastCmd' = [socket |-> c, type |-> "pong", entityId |-> ""]
        /\ UNCHANGED <<storeVars, entitiesByLayer, playerCounter, chunks, loadedChunks,
                       chunkSubscriptions, lastOp, hookLog, moveVars>>

HeartbeatError ==
    \E c \in ErrorSockets :
        /\ Live(c)
        /\ Handled(c, "error", "", handleError(ServerState, c))

\* The 'close' event of a socket terminate() was called on
CloseTerminated ==
    \E c \in Sockets :
        /\ Terminated(c)
        /\ Handled(c, "close", "", handleClose(ServerState, c))

\* The peer closes
HeartbeatClose ==
    \E c \in Sockets :
        /\ Live(c)
        /\ Handled(c, "close", "", handleClose(ServerState, c))

HeartbeatNext ==
    \/ HeartbeatConnect
    \/ HeartbeatLogin
    \/ HeartbeatSubscribe
    \/ HeartbeatTick
    \/ Pong
    \/ HeartbeatError
    \/ CloseTerminated
    \/ HeartbeatClose

\* What tells the 'close' event of a terminated socket from every other step;
\* terminate() destroys the socket, so the event is emitted
TerminatedCloses(c) ==
    /\ Terminated(c)
    /\ clients' = [clients EXCEPT ![c] = ClosedClient]
    /\ lastCmd' = [socket |-> c, type |-> "close", entityId |-> ""]

SpecHeartbeat ==
    /\ Init /\ [][HeartbeatNext]_vars
    /\ \A c \in Sockets : WF_<<clients, lastCmd>>(TerminatedCloses(c))

\* The session of socket c as the 'close' listener leaves it
CleanedUp(c) ==
    /\ clients[c] = ClosedClient
    /\ \A k \in DOMAIN chunkSubscriptions : c \notin chunkSubscriptions[k]

\* A connection of the server's maps is terminated by the heartbeat exactly
\* when two ticks have passed without a pong of it
TerminatedWhenSilent ==
    \A c \in Sockets :
        (clients[c].open /\ clients[c].mapped) =>
            (clients[c].terminated <=> clients[c].silent >= 2)

TARGET_FPS == 60
MAX_DELTA_TIME == 100

\* No tick starts after this time
MaxClock == 400

\* How long the updates of one tick take, and how late a timer may fire
UpdateDurations == {0, 5, 20, 150}
TimerLateness == {0, 3, 200}

\* Math.max(1, targetFrameTime - loopDuration) as setTimeout truncates it
nextFrameDelay(loopDuration) == Max2(1, (1000 \div TARGET_FPS) - loopDuration)

LoopInit ==
    /\ lastOp = [op |-> "startGameLoop", now |-> 0, lastTime |-> 0, deltaTime |-> 0,
                 next |-> 0]
    /\ entities = EmptyMap
    /\ contractIndex = EmptyMap
    /\ hookLog = <<>>
    /\ entitiesByLayer = <<>>
    /\ playerCounter = 0
    /\ chunks = EmptyMap
    /\ loadedChunks = {}
    /\ clients = EmptyMap
    /\ chunkSubscriptions = EmptyMap
    /\ sent = <<>>
    /\ broadcast = <<>>
    /\ lastCmd = [socket |-> "", type |-> "init", entityId |-> ""]
    /\ lastMove = NoMove
    /\ moves = 0

\* One run of gameLoop: deltaTime is taken from the clock, handed to
\* movementSystem.update and durabilitySystem.update, and the next run is set
gameLoop ==
    \E loopDuration \in UpdateDurations, late \in TimerLateness :
        /\ lastOp.next <= MaxClock
        /\ lastOp' = [op |-> "gameLoop", now |-> lastOp.next, lastTime |-> lastOp.next,
                      deltaTime |-> lastOp.next - lastOp.lastTime,
                      next |-> lastOp.next + loopDuration
                                 + nextFrameDelay(loopDuration) + late]
        /\ UNCHANGED <<storeVars, serverVars, hookLog, moveVars>>

LoopNext == gameLoop

SpecLoop == LoopInit /\ [][LoopNext]_vars

\* C35: in every tick the deltaTime passed to the movement and durability
\* updates is at most MAX_DELTA_TIME (100 ms), however long the previous tick
\* or the timer delay lasted.
C35_DeltaTimeClamped ==
    lastOp.op = "gameLoop" => lastOp.deltaTime <= MAX_DELTA_TIME

\* What the loop passes: the wall-clock time since the previous tick began,
\* which is within MAX_DELTA_TIME when the updates and the timer took no more
\* than that together
C35_DeltaTimeIsElapsed ==
    lastOp.op = "gameLoop" =>
        /\ lastOp.deltaTime >= 0
        /\ lastOp.lastTime = lastOp.now
        /\ lastOp.next > lastOp.now

(***************************************************************************)
(* SpecStatic: one static-grid check of performSweptAABB a behaviour.  The *)
(* chunks (0,0,0) and (-4,0,0) are loaded, each with its centre cell       *)
(* solid; a box is carried from a start position along a displacement and  *)
(* checkStaticSolids is called for every chunk of getChunksForMovement.    *)
(***************************************************************************)
StaticWorld ==
    LoadAll([st |-> EmptyStore, cm |-> EmptyChunks, log |-> <<>>],
            {ChunkUtils_create("default", 0, 0, 0), ChunkUtils_create("default", 0 - 4, 0, 0)})

StaticShape == BoxShape((2 * Unit) \div 5)

\* Places beside and inside the solid cells, the same places one chunk further,
\* and places at negative coordinates
StaticStarts ==
    { Vec3(x, y, z) :
        x \in {(33 * Unit) \div 2, (97 * Unit) \div 2, 0 - 111 * Unit,
               0 - (31 * Unit) \div 2, (159 * Unit) \div 5, Unit \div 5},
        y \in {130 * Unit, 2 * Unit},
        z \in {17 * Unit, 49 * Unit, 0 - 15 * Unit} }

StaticDisplacements ==
    { Vec3(0, 0, 0), Vec3(Unit \div 2, 0, 0), Vec3(0 - Unit \div 2, 0, 0),
      Vec3(0, 0, Unit \div 2) }

StaticInit ==
    \E w \in {StaticWorld} :
        /\ entities = w.st.entities
        /\ contractIndex = w.st.contractIndex
        /\ chunks = w.cm.chunks
        /\ loadedChunks = w.cm.loadedChunks
        /\ lastMove = NoMove
        /\ moves = 0
        /\ entitiesByLayer = <<>>
        /\ playerCounter = 0
        /\ clients = EmptyMap
        /\ chunkSubscriptions = EmptyMap
        /\ sent = <<>>
        /\ broadcast = <<>>
        /\ lastCmd = [socket |-> "", type |-> "init", entityId |-> ""]
        /\ lastOp = [op |-> "init", id |-> "", type |-> "", err |-> "none"]
        /\ hookLog = <<>>

\* The loop of performSweptAABB over the affected chunks: the chunks whose
\* checkStaticSolids reports a hit, and the manager after their getChunk
StaticCheck ==
    \E startPos \in StaticStarts, displacement \in StaticDisplacements :
        /\ lastMove = NoMove
        /\ LET affected == getChunksForMovement(startPos,
                                                Vec3Utils_add(startPos, displacement))
               cm == GetChunks(Manager, affected)
               movingAABB == getEntityAABB(StaticShape, startPos)
           IN /\ chunks' = cm.chunks
              /\ loadedChunks' = cm.loadedChunks
              /\ lastMove' =
                    [op |-> "checkStaticSolids", startPos |-> startPos,
                     displacement |-> displacement,
                     endAABB |-> getEntityAABB(StaticShape,
                                               Vec3Utils_add(startPos, displacement)),
                     hits |-> {k \in affected :
                                 checkStaticSolids(cm.chunks[ChunkUtils_toString(k)],
                                                   movingAABB, displacement).hit}]
        /\ UNCHANGED <<storeVars, entitiesByLayer, playerCounter, clients,
                       chunkSubscriptions, sent, broadcast, lastCmd, lastOp, hookLog, moves>>

StaticNext == StaticCheck

SpecStatic == StaticInit /\ [][StaticNext]_vars

\* The box in world coordinates of cell v of the grid of the chunk with the key
VoxelBox(key, v, gridRes) ==
    [min |-> Vec3(key.cx * CHUNK_SIZE * Unit + v[1] * ((CHUNK_SIZE * Unit) \div gridRes),
                  key.cy * CHUNK_HEIGHT * Unit + v[2] * ((CHUNK_HEIGHT * Unit) \div gridRes),
                  key.cz * CHUNK_SIZE * Unit + v[3] * ((CHUNK_SIZE * Unit) \div gridRes)),
     max |-> Vec3(key.cx * CHUNK_SIZE * Unit
                      + (v[1] + 1) * ((CHUNK_SIZE * Unit) \div gridRes),
                  key.cy * CHUNK_HEIGHT * Unit
                      + (v[2] + 1) * ((CHUNK_HEIGHT * Unit) \div gridRes),
                  key.cz * CHUNK_SIZE * Unit
                      + (v[3] + 1) * ((CHUNK_SIZE * Unit) \div gridRes))]

\* Two boxes share a point
BoxesMeet(a, b) ==
    \A axis \in {"x", "y", "z"} : a.min[axis] <= b.max[axis] /\ b.min[axis] <= a.max[axis]

\* The box meets a solid cell of the chunk's grid, in world coordinates
MeetsSolidVoxel(box, key) ==
    LET chunk == chunks[ChunkUtils_toString(key)]
    IN \E v \in chunk.solidGrid.solid :
          BoxesMeet(box, VoxelBox(key, v, chunk.solidGrid.width))

\* The box lies within the extent of the chunk
WithinChunk(box, key) ==
    /\ keyFromPos("default", box.min) = key
    /\ keyFromPos("default", box.max) = key

\* C36: a static-grid hit is reported only when the mover's box at the end
\* position overlaps, in world coordinates, a cell that is solid in the grid of
\* the chunk the cell belongs to: a solid cell of a neighbouring candidate
\* chunk does not block a mover that does not overlap it.
C36_StaticHitOverlapsVoxel ==
    lastMove.op = "checkStaticSolids" =>
        \A k \in lastMove.hits : MeetsSolidVoxel(lastMove.endAABB, k)

\* A hit reported by the chunk the end box lies in is a hit of one of that
\* chunk's solid cells
C36_HitInsideOwnChunk ==
    lastMove.op = "checkStaticSolids" =>
        \A k \in lastMove.hits :
            WithinChunk(lastMove.endAABB, k) => MeetsSolidVoxel(lastMove.endAABB, k)

\* Every solid cell the end box goes into is reported by a candidate chunk
C36_SolidVoxelReported ==
    lastMove.op = "checkStaticSolids" =>
        \A k \in {ChunkUtils_create("default", 0, 0, 0),
                  ChunkUtils_create("default", 0 - 4, 0, 0)} :
            \A v \in chunks[ChunkUtils_toString(k)].solidGrid.solid :
                (\A axis \in {"x", "y", "z"} :
                    /\ lastMove.endAABB.min[axis]
                          < VoxelBox(k, v, SolidGridResolution).max[axis]
                    /\ VoxelBox(k, v, SolidGridResolution).min[axis]
                          < lastMove.endAABB.max[axis])
                  => lastMove.hits # {}

(***************************************************************************)
(* SpecSpawn: entities are spawned from archetypes into layers, moved (the *)
(* mobility contract is replaced) and removed, on a world that is empty at *)
(* the start.  An id stands for the unique id spawn generates; each is     *)
(* spawned into one layer.                                                 *)
(***************************************************************************)
SpawnIds == {"block-1", "item-2", "block-3"}

SpawnArchetype(id) == IF id = "item-2" THEN "item" ELSE "block"

SpawnLayer(id) == IF id = "block-1" THEN "default" ELSE "nether"

SpawnLayers == {"default", "nether"}

SpawnPositions == {Vec3(0, 0, 0), Vec3(4 * Unit, 0, 0)}

SpawnInit ==
    /\ entities = EmptyMap
    /\ contractIndex = EmptyMap
    /\ entitiesByLayer = <<>>
    /\ playerCounter = 0
    /\ lastOp = [op |-> "init", id |-> "", type |-> "", err |-> "none"]
    /\ hookLog = <<>>
    /\ chunks = EmptyMap
    /\ loadedChunks = {}
    /\ clients = EmptyMap
    /\ chunkSubscriptions = EmptyMap
    /\ sent = <<>>
    /\ broadcast = <<>>
    /\ lastCmd = [socket |-> "", type |-> "init", entityId |-> ""]
    /\ lastMove = NoMove
    /\ moves = 0

\* The world state after a call
Spawned(type, id, wd) ==
    /\ entities' = wd.st.entities
    /\ contractIndex' = wd.st.contractIndex
    /\ entitiesByLayer' = wd.ebl
    /\ playerCounter' = wd.pc
    /\ lastCmd' = [socket |-> "", type |-> type, entityId |-> id]
    /\ UNCHANGED <<chunks, loadedChunks, clients, chunkSubscriptions, sent, broadcast,
                   lastOp, hookLog, moveVars>>

Spawn ==
    \E id \in SpawnIds, position \in SpawnPositions :
        /\ ~hasEntity(Store, id)
        /\ Spawned("spawn", id,
                   spawn(CurrentWorld, SpawnArchetype(id), id, SpawnLayer(id), position))

\* A move: addContract of the mobility at the new position, with the hooks
SpawnMove ==
    \E id \in SpawnIds, position \in SpawnPositions :
        /\ hasEntity(Store, id)
        /\ getContract(Store, id, "mobility")[1].position # position
        /\ Spawned("move", id,
                   Hooked(CurrentWorld,
                          addContract(Store, DefaultLimits, id,
                                      createMobility(position, NoNumber))))

SpawnRemove ==
    \E id \in SpawnIds :
        /\ hasEntity(Store, id)
        /\ Spawned("remove", id, Hooked(CurrentWorld, removeEntity(Store, id)))

SpawnNext == Spawn \/ SpawnMove \/ SpawnRemove

SpecSpawn == SpawnInit /\ [][SpawnNext]_vars

\* The layers whose getEntitiesInLayer lists the entity
ListedIn(id) == {l \in SpawnLayers : id \in Range(getEntitiesInLayer(entitiesByLayer, l))}

\* C37: every entity created by spawn(archetype, L, pos) is listed by
\* getEntitiesInLayer(L) and by no other layer for as long as it exists, also
\* after its mobility is replaced by moves; after its removal it is listed in
\* no layer.
C37_SpawnedListedInItsLayer ==
    \A id \in SpawnIds :
        ListedIn(id) = IF hasEntity(Store, id) THEN {SpawnLayer(id)} ELSE {}

\* What the tracking keeps: an existing entity is listed under 'default',
\* whatever layer it was spawned into, and a removed one is listed nowhere
C37_ListedUnderDefault ==
    \A id \in SpawnIds :
        IF hasEntity(Store, id) THEN "default" \in ListedIn(id) ELSE ListedIn(id) = {}

\* A spawned entity is listed by its own layer for as long as it exists
C37_ListedInOwnLayer ==
    \A id \in SpawnIds : hasEntity(Store, id) => SpawnLayer(id) \in ListedIn(id)

\* C38: whenever a session has a bound player id, that id refers to an entity
\* in the store: the player entity does not leave the store (through
\* durability destruction, a removal on another path, or a world load) while
\* the session still holds its id.
C38_SessionPlayerExists ==
    \A c \in DOMAIN clients :
        clients[c].playerId # "" => hasEntity(Store, clients[c].playerId)

\* C39: createEntity is all-or-nothing: when it throws because a contract is
\* rejected, no entity with that id is left in the store and none of its
\* contracts in the contract index, so that a later createEntity with the same
\* id succeeds.
C39_CreateEntityAllOrNothing ==
    (lastOp.op = "createEntity" /\ lastOp.err \notin {"none", "exists"}) =>
        /\ ~hasEntity(Store, lastOp.id)
        /\ \A t \in DOMAIN contractIndex : lastOp.id \notin Range(contractIndex[t])
        /\ \A cs \in StoreInitialLists(lastOp.id) :
              createEntity(Store, DefaultLimits, lastOp.id, cs).err # "exists"

\* What a createEntity that throws leaves: the entity, holding the contracts
\* that were added before the rejected one, each of them indexed
C39_RejectedCreateLeavesEntity ==
    (lastOp.op = "createEntity" /\ lastOp.err \notin {"none", "exists"}) =>
        /\ hasEntity(Store, lastOp.id)
        /\ \A i \in 1..Len(getContracts(Store, lastOp.id)) :
              lastOp.id \in Range(contractIndex[getContracts(Store, lastOp.id)[i].type])
        /\ createEntity(Store, DefaultLimits, lastOp.id, <<>>).err = "exists"

(***************************************************************************)
(* SpecSubscriptions: the sessions send subscribe_chunks,                  *)
(* unsubscribe_chunks, set_view, move_dir, login and logout, and           *)
(* disconnect.                                                             *)
(***************************************************************************)
\* The chunk of the spawn point and a chunk outside every view of the sessions
SubscriptionKeyLists ==
    { <<ChunkUtils_create("default", 0, 0, 0)>>, <<ChunkUtils_create("default", 5, 0, 0)>>,
      <<ChunkUtils_create("default", 5, 0, 0), ChunkUtils_create("default", 0, 0, 0)>> }

\* A view radius that reaches one chunk around the player's chunk
SubscriptionRadii == {16 * Unit}

SubscriptionsSubscribe ==
    \E c \in Sockets : \E chunkKeys \in SubscriptionKeyLists :
        /\ clients[c].open
        /\ Handled(c, "subscribe_chunks", "",
                   handleSubscribeChunks(ServerState, c, chunkKeys))

SubscriptionsUnsubscribe ==
    \E c \in Sockets : \E chunkKeys \in SubscriptionKeyLists :
        /\ clients[c].open
        /\ Handled(c, "unsubscribe_chunks", "",
                   handleUnsubscribeChunks(ServerState, c, chunkKeys))

SubscriptionsSetView ==
    \E c \in Sockets : \E radius \in SubscriptionRadii :
        /\ clients[c].open /\ MayCreate(c)
        /\ Handled(c, "set_view", "", handleSetViewMessage(ServerState, c, radius))

SubscriptionsNext ==
    \/ Connect
    \/ Close
    \/ Login
    \/ Logout
    \/ SubscriptionsSetView
    \/ MoveDir
    \/ SubscriptionsSubscribe
    \/ SubscriptionsUnsubscribe

SpecSubscriptions == Init /\ [][SubscriptionsNext]_vars

====
